---- MODULE Spec2Model ----
(***************************************************************************)
(* Model of the crawler module (modules/crawler.js) of the Cloudflare      *)
(* scraping agent: handleCrawl, scrapeSingleUrl with its three strategies, *)
(* crawlRecursive, and the KV page cache (checkCache / cacheResult),       *)
(* together with the helpers they call (utils/helpers.js).                 *)
(*                                                                         *)
(* The environment of one run is: the web (what an HTTP request to each    *)
(* URL gives), the content of the KV namespace bound as env.CACHE, whether *)
(* that binding works, the clock, and CONFIG.scraper.max_pages_per_domain. *)
(* They are chosen in Init. The request is chosen by HandleCrawl.          *)
(***************************************************************************)
EXTENDS Integers, Sequences, FiniteSets, TLC

\* ------------------------------------------------------------------ bounds

\* Largest `depth` parameter a request carries.
MaxDepthParam == 2
\* The larger of the two values of CONFIG.scraper.max_pages_per_domain tried.
MaxPagesLarge == 4
\* The smaller one, below the number of same-domain pages of the web.
MaxPagesSmall == 2

\* ------------------------------------------------------- program constants

\* checkCache: const maxAge = 24 * 60 * 60 * 1000
maxAge == 86400000
\* retry defaults
initialDelay == 1000
maxDelay == 10000
backoffFactor == 2
\* CONFIG.scraper.max_retries as documented
max_retries == 3
\* CONFIG.scraper.delay_between_requests_ms (config.json is not part of the
\* sources; the value only moves the clock)
delay_between_requests_ms == 1000
\* parseHTML: .slice(0, 50) and .substring(0, 50000)
LinkCap == 50

\* ------------------------------------------------------------------ the web

S  == "https://a.example/"
A1 == "https://a.example/1"
A2 == "https://a.example/2"
A3 == "https://a.example/3"
B1 == "https://b.example/1"
B2 == "https://b.example/2"
BadUrl == "not a url"

ValidUrls == {S, A1, A2, A3, B1, B2}

\* new URL(u).hostname of each URL of the model
Hostname(u) ==
  IF u \in {S, A1, A2, A3} THEN "a.example" ELSE "b.example"

\* The URLs of the feeds
FeedUrl1 == "https://news.example/feed.xml"
FeedUrl2 == "https://watch.example/rss"
FeedUrlOff == "https://paused.example/rss"
FeedUrls == {FeedUrl1, FeedUrl2, FeedUrlOff}

\* helpers.js isValidUrl: new URL(string) does not throw
isValidUrl(u) == u \in ValidUrls \cup FeedUrls

\* helpers.js extractDomain: hostname, or null when new URL throws
extractDomain(u) == IF isValidUrl(u) THEN Hostname(u) ELSE "null"

\* The href values of the <a> elements of the page at each URL, in document
\* order. S links to three same-domain and two cross-domain pages; A1 and A2
\* close cycles, A1 lists one link twice.
Hrefs(u) ==
  CASE u = S  -> <<A1, A2, A3, B1, B2>>
    [] u = A1 -> <<S, A2, A2, BadUrl>>
    [] u = A2 -> <<A1, A2, A3>>
    [] u = A3 -> <<>>
    [] u = B1 -> <<B2, S>>
    [] OTHER  -> <<>>

\* What the platform's fetch(url) gives: "ok" is a 200 text/html response with
\* a non-empty body, "500" a response with status 500, "neterr" a rejected
\* promise (network error or AbortSignal timeout).
HttpKinds == {"ok", "500", "neterr"}

AllOk  == [u \in ValidUrls |-> "ok"]
All500 == [u \in ValidUrls |-> "500"]
Mixed  == [u \in ValidUrls |->
             CASE u = A1 -> "500" [] u = A2 -> "neterr" [] OTHER -> "ok"]
HttpScenarios == {AllOk, All500, Mixed}

\* ---------------------------------------------------------------- helpers.js

Min(a, b) == IF a < b THEN a ELSE b

NoValue == [title |-> "", content |-> "", links |-> <<>>]

\* The outcome of a call: it returns `value` or throws `error`. `slept` is the
\* time the call spent in sleep(), `calls` the number of HTTP requests issued.
Returned(v, slept, calls) ==
  [threw |-> FALSE, error |-> "", value |-> v, slept |-> slept, calls |-> calls]
Thrown(e, slept, calls) ==
  [threw |-> TRUE, error |-> e, value |-> NoValue, slept |-> slept, calls |-> calls]

\* helpers.js retry: for (i = 0; i < maxRetries; i++) { try { return await fn() }
\* catch { lastError = error; if (i < maxRetries - 1) { sleep(delay); delay =
\* min(delay * backoffFactor, maxDelay) } } } throw lastError.
\* `fn` is the outcome of the operation at each call; i counts from 0 as in the
\* code. With maxRetries = 0 the loop body never runs and `undefined` is thrown.
\* delay = Math.min(delay * backoffFactor, maxDelay)
nextDelayUncapped(delay) == delay * backoffFactor
nextDelay(delay) == Min(delay * backoffFactor, maxDelay)

RECURSIVE retryLoop(_, _, _, _, _, _)
retryLoop(fn, maxRetries, i, delay, lastError, slept) ==
  IF i >= maxRetries
    THEN Thrown(lastError, slept, i)
    ELSE IF ~fn.threw
      THEN Returned(fn.value, slept, i + 1)
      ELSE IF i < maxRetries - 1
        THEN retryLoop(fn, maxRetries, i + 1,
                       nextDelay(delay), fn.error, slept + delay)
        ELSE retryLoop(fn, maxRetries, i + 1, delay, fn.error, slept)

retry(fn, maxRetries) == retryLoop(fn, maxRetries, 0, initialDelay, "undefined", 0)

\* ----------------------------------------------------- crawler.js strategies

\* parseHTML: the links are the href values that are valid URLs, the first 50
\* of them; the title and the text are those of the page.
parseHTML(u) ==
  LET valid == SelectSeq(Hrefs(u), isValidUrl)
  IN [title |-> "Title", content |-> "text",
      links |-> SubSeq(valid, 1, Min(Len(valid), LinkCap))]

\* The callback scrapeWithFetch hands to retry:
\*   const res = await fetch(url, ...);
\*   if (!response.ok) throw new Error(`HTTP ${response.status}: ...`);
\*   return res;
\* `response` is the const of the enclosing function that the awaited retry call
\* is about to initialise: while the callback runs it is in its temporal dead
\* zone, so reading it throws a ReferenceError whatever the response was. A
\* rejected fetch throws before that line.
fetchCallback(kind) ==
  IF kind = "neterr"
    THEN Thrown("fetch failed", 0, 1)
    ELSE Thrown("Cannot access 'response' before initialization", 0, 1)

\* scrapeWithFetch: the retried request, then the content-type test and
\* parseHTML on the response retry returned.
scrapeWithFetch(u, kind) ==
  LET r == retry(fetchCallback(kind), max_retries)
  IN IF r.threw
       THEN r
       ELSE Returned(parseHTML(u), r.slept, r.calls)

\* scrapeWithBrowser: throw new Error('Browser rendering not configured')
scrapeWithBrowserSilent(u) == Returned(NoValue, 0, 0)
scrapeWithBrowser(u) == Thrown("Browser rendering not configured", 0, 0)

\* scrapeWithAPI: throw new Error('API scraping not configured')
scrapeWithAPI(u) == Thrown("API scraping not configured", 0, 0)

\* The order of the strategies array of scrapeSingleUrl.
strategiesSwapped == <<"puppeteer", "fetch", "api">>
strategies == <<"fetch", "puppeteer", "api">>

\* strategy.fn(url, env)
strategyFn(name, u, kind) ==
  CASE name = "fetch"     -> scrapeWithFetch(u, kind)
    [] name = "puppeteer" -> scrapeWithBrowser(u)
    [] OTHER              -> scrapeWithAPI(u)

\* ------------------------------------------------------ crawler.js page cache

\* new Date().toISOString() and new Date(s).getTime(): the ISO string keeps the
\* millisecond, so the time read back is the time written.
toISOString(t) == [iso |-> t]
getTime(s) == s.iso

NoEntry == [present |-> FALSE, url |-> "", links |-> <<>>,
            scraped_at |-> toISOString(0), method |-> "", expires_at |-> 0]

\* The value cacheResult stores for `data`, and the KV entry around it:
\* cache.put(key, JSON.stringify(data), {expirationTtl: 24 * 60 * 60}).
EntryTtlInMillis(data, now) ==
  [present |-> TRUE, url |-> data.url, links |-> data.links,
   scraped_at |-> data.scraped_at, method |-> data.method,
   expires_at |-> now + 24 * 60 * 60]
Entry(data, now) ==
  [present |-> TRUE, url |-> data.url, links |-> data.links,
   scraped_at |-> data.scraped_at, method |-> data.method,
   expires_at |-> now + 24 * 60 * 60 * 1000]

\* cache.get(key, {type: 'json'}) of the KV namespace: the entry unless its
\* expirationTtl has passed.
kvGet(c, u, now) ==
  IF c[u].present /\ now < c[u].expires_at THEN c[u] ELSE NoEntry

\* checkCache: null without a binding, on a read error, without an entry, and
\* for an entry whose age is not below maxAge.
checkCacheInclusive(u, mode, c, now) ==
  IF mode \in {"none", "readErr"}
    THEN NoEntry
    ELSE LET cached == kvGet(c, u, now)
         IN IF cached.present /\ now - getTime(cached.scraped_at) <= maxAge
              THEN cached ELSE NoEntry
checkCache(u, mode, c, now) ==
  IF mode \in {"none", "readErr"}
    THEN NoEntry
    ELSE LET cached == kvGet(c, u, now)
         IN IF cached.present /\ now - getTime(cached.scraped_at) < maxAge
              THEN cached ELSE NoEntry

\* cacheResult: nothing without a binding; a write error is caught.
cacheResult(u, data, mode, c, now) ==
  IF mode \in {"none", "writeErr"}
    THEN c
    ELSE [c EXCEPT ![u] = Entry(data, now)]

\* ------------------------------------------------------------------- state

VARIABLES
  http,        \* the web: what fetch(url) gives for each URL
  cache,       \* env.CACHE: the KV entry under `scrape:${url}` for each URL
  cache0,      \* history: the content of env.CACHE when the call started
  cacheMode,   \* "ok", or "none" (no binding), "readErr", "writeErr"
  now,         \* Date.now()
  maxPages,    \* CONFIG.scraper.max_pages_per_domain
  pc,          \* where the handleCrawl call stands
  req,         \* params of the handleCrawl call
  response,    \* what handleCrawl returned
  visited,     \* crawlRecursive: visited
  results,     \* crawlRecursive: results
  queue,       \* crawlRecursive: queue, entries {url, depth}
  cur,         \* the {url, depth} being scraped
  stratIdx,    \* scrapeSingleUrl: position in the strategies array (from 1)
  lastError,   \* scrapeSingleUrl: lastError
  ret,         \* what scrapeSingleUrl returned or threw
  crawlData,   \* data of the object crawlRecursive returned
  attempts,    \* history: the strategies the current scrapeSingleUrl call tried
  scrapeLog,   \* history: the scrapeSingleUrl calls of this handleCrawl call
  skipped,     \* history: a queue entry was dropped by the visited / depth test
  storeCalls,  \* history: number of storeResult calls
  pace,        \* history: the time between successive scrapeSingleUrl calls
  cu,          \* a checkCache / cacheResult call made on its own
  rt,          \* a retry call made on its own
  fd,          \* a feed check (handleRSS / checkRSSFeeds)
  wk,          \* the fetch handler of the worker: rate limiter, routes, admin
  cr,          \* two scrapeSingleUrl calls for one URL running at once
  rl,          \* RateLimiter.checkLimit calls of one client made on their own
  qc           \* the queue consumer of the worker working through a batch

vars == <<http, cache, cache0, cacheMode, now, maxPages, pc, req, response, visited,
          results, queue, cur, stratIdx, lastError, ret, crawlData, attempts,
          scrapeLog, skipped, storeCalls, pace, cu, rt, fd, wk, cr, rl, qc>>

\* The state of the calls that are not part of a handleCrawl call.
unitVars == <<cu, rt, fd, wk, cr, rl, qc>>

\* The clock at the start, and the time between a document's scraped_at stamp
\* and the cache.put that stored it.
Now0 == 200000000
KvPutLag == 2000

NoError == [msg |-> "", last |-> ""]
Err(m) == [msg |-> m, last |-> ""]

NoRet == [threw |-> FALSE, error |-> NoError, success |-> FALSE,
          cached |-> FALSE, data |-> NoEntry]
NoResponse == [success |-> FALSE, error |-> NoError, mode |-> "",
               storage |-> "none", returned |-> FALSE]
NoCrawlData == [start_url |-> "", pages_crawled |-> 0, pages |-> <<>>,
                max_depth |-> 0]
NoCur == [url |-> "", depth |-> 0, parentDepth |-> -1]

\* No scrapeSingleUrl call has ended yet (lastEnd), none has followed another
\* (gap): `gap` is the time from the end of a scrapeSingleUrl call to the start
\* of the next one of the same crawl, `afterThrew` whether the earlier one threw.
NoPace == [lastEnd |-> -1, lastThrew |-> FALSE, gap |-> -1, afterThrew |-> FALSE]

\* scrapeSingleUrl is called at time t
paceStart(p, t) ==
  [p EXCEPT !.gap = IF p.lastEnd = -1 THEN -1 ELSE t - p.lastEnd,
            !.afterThrew = p.lastThrew]

\* scrapeSingleUrl returns or throws at time t
paceEnd(p, t, threw) == [p EXCEPT !.lastEnd = t, !.lastThrew = threw]

\* An entry an earlier run left in the KV namespace for u, stamped `age` before
\* the start of this run.
OldEntry(u, age) ==
  [present |-> TRUE, url |-> u, links |-> parseHTML(u).links,
   scraped_at |-> toISOString(Now0 - age), method |-> "fetch",
   expires_at |-> Now0 - age + KvPutLag + 24 * 60 * 60 * 1000]

Ages == {0, maxAge - 1, maxAge}

\* For each URL the age of its entry, or -1 for none. A3 and B1 hold a new entry
\* or none, B2 none.
InitialAges ==
  { f \in [ValidUrls -> Ages \cup {-1}] :
      /\ \A u \in {A3, B1} : f[u] \in {-1, 0}
      /\ f[B2] = -1 }

InitialCaches ==
  { [u \in ValidUrls |-> IF f[u] = -1 THEN NoEntry ELSE OldEntry(u, f[u])] :
      f \in InitialAges }

FullCache == [u \in ValidUrls |-> OldEntry(u, 0)]

\* No checkCache / cacheResult call, no retry call and no feed check is made.
NoCacheCall == [op |-> "none", url |-> "", doc |-> NoEntry, got |-> NoEntry,
                threw |-> FALSE, at |-> 0, last |-> <<>>, ticks |-> 0]
NoRetry == [op |-> "none", maxRetries |-> 0, outs |-> <<>>, i |-> 0, delay |-> 0,
            lastError |-> "undefined", sleeps |-> <<>>, calls |-> 0,
            state |-> "", value |-> NoValue, error |-> ""]
NoFeedCheck ==
  [op |-> "none", pcF |-> "", cfg |-> <<>>, env |-> [set |-> FALSE, value |-> 0], web |-> <<>>,
   feeds |-> <<>>, threshold |-> 0, feedIdx |-> 0, feedResult |-> <<>>,
   scored |-> <<>>, itemIdx |-> 0,
   results |-> [feeds_checked |-> 0, high_score_items |-> <<>>,
                scrapes_triggered |-> 0, errors |-> <<>>],
   queue |-> <<>>, sends |-> <<>>, fetched |-> <<>>, stored |-> "none",
   params |-> [feed_url |-> "", threshold |-> [set |-> FALSE, value |-> 0]],
   response |-> [returned |-> FALSE, success |-> FALSE, error |-> "",
                 result |-> <<>>]]

\* The fetch handler of the worker has handled no request.
NoHeader == [set |-> FALSE, value |-> ""]
NoWorkerResponse ==
  [request |-> [method |-> "", path |-> "", ip |-> NoHeader, auth |-> NoHeader],
   status |-> 0, error |-> "", success |-> FALSE, limited |-> FALSE,
   allowed |-> FALSE, remaining |-> 0, reset_in |-> 0, ops |-> <<>>,
   raised |-> FALSE]
NoWorker ==
  [on |-> FALSE, env |-> <<>>, kv |-> <<>>, kvMode |-> "", requests |-> 0, ticks |-> 0,
   windowStart |-> <<>>, allowedInWindow |-> <<>>,
   last |-> NoWorkerResponse]

\* No two scrapeSingleUrl calls run at once.
NoRace == [on |-> FALSE, url |-> "", calls |-> <<>>, writes |-> <<>>]

\* No checkLimit call is made on its own, and the queue consumer has no batch.
NoLimiter == [on |-> FALSE, limit |-> 0, mode |-> "", kv |-> <<>>, calls |-> <<>>,
              started |-> 0, ticks |-> 0, windowStart |-> -1,
              allowedInWindow |-> 0, last |-> <<>>]
NoConsumer == [on |-> FALSE, messages |-> <<>>, idx |-> 0, acks |-> <<>>,
               retries |-> <<>>, outcomes |-> <<>>]

\* The handleCrawl calls tried.
Requests ==
    { [url |-> u, mode |-> "manual", depth |-> 1] : u \in {S, A1, BadUrl, ""} }
  \cup
    { [url |-> S, mode |-> "auto", depth |-> d] : d \in 0 .. MaxDepthParam }
  \cup
    { [url |-> B1, mode |-> "auto", depth |-> 1],
      [url |-> S, mode |-> "full", depth |-> 1] }

Init ==
  /\ http \in HttpScenarios
  /\ \/ cacheMode = "ok" /\ cache \in InitialCaches
     \/ cacheMode \in {"none", "readErr", "writeErr"} /\ cache = FullCache
  /\ cache0 = cache
  /\ now = Now0
  /\ maxPages \in {MaxPagesSmall, MaxPagesLarge}
  /\ pc = "idle"
  /\ req = [url |-> "", mode |-> "", depth |-> 0]
  /\ response = NoResponse
  /\ visited = {}
  /\ results = <<>>
  /\ queue = <<>>
  /\ cur = NoCur
  /\ stratIdx = 0
  /\ lastError = "undefined"
  /\ ret = NoRet
  /\ crawlData = NoCrawlData
  /\ attempts = <<>>
  /\ scrapeLog = <<>>
  /\ skipped = FALSE
  /\ storeCalls = 0
  /\ pace = NoPace
  /\ cu = NoCacheCall
  /\ rt = NoRetry
  /\ fd = NoFeedCheck
  /\ wk = NoWorker
  /\ cr = NoRace
  /\ rl = NoLimiter
  /\ qc = NoConsumer

\* ------------------------------------------------------------- handleCrawl

\* if (mode === 'manual')
isManualNever(mode) == FALSE
isManual(mode) == mode = "manual"

\* handleCrawl up to the call of scrapeSingleUrl or crawlRecursive: the URL
\* test, then the dispatch on mode. crawlRecursive starts with an empty visited
\* set, no results and the start URL at depth 0 in the queue.
HandleCrawl(params) ==
  /\ pc = "idle"
  /\ req' = params
  /\ IF params.url = "" \/ ~isValidUrl(params.url)
       THEN /\ response' = [NoResponse EXCEPT !.error = Err("Invalid URL provided"),
                                              !.returned = TRUE]
            /\ pc' = "done"
            /\ UNCHANGED <<queue, cur>>
       ELSE IF isManual(params.mode)
         THEN /\ cur' = [url |-> params.url, depth |-> 0, parentDepth |-> -1]
              /\ pc' = "scrape_cache"
              /\ UNCHANGED <<response, queue>>
         ELSE IF params.mode = "auto"
           THEN /\ queue' = <<[url |-> params.url, depth |-> 0, parentDepth |-> -1]>>
                /\ pc' = "crawl_loop"
                /\ UNCHANGED <<response, cur>>
           ELSE /\ response' = [NoResponse EXCEPT !.error = Err("Unknown mode"),
                                                  !.returned = TRUE]
                /\ pc' = "done"
                /\ UNCHANGED <<queue, cur>>
  /\ UNCHANGED <<pace, unitVars>>
  /\ UNCHANGED <<http, cache, cache0, cacheMode, now, maxPages, visited, results,
                 stratIdx, lastError, ret, crawlData, attempts, scrapeLog,
                 skipped, storeCalls>>

\* ---------------------------------------------------------- scrapeSingleUrl

\* return { success: true, cached: true, data: cached }
cacheHitUnmarked(cached) ==
  [threw |-> FALSE, error |-> NoError, success |-> TRUE, cached |-> FALSE,
   data |-> cached]
cacheHit(cached) ==
  [threw |-> FALSE, error |-> NoError, success |-> TRUE, cached |-> TRUE,
   data |-> cached]

\* The cache test at the head of scrapeSingleUrl: a hit returns
\* {success: true, cached: true, data: cached}; otherwise the loop over the
\* strategies starts with lastError undefined.
ScrapeCheckCache ==
  /\ pc = "scrape_cache"
  /\ LET cached == checkCache(cur.url, cacheMode, cache, now)
     IN IF cached.present
          THEN /\ ret' = cacheHit(cached)
               /\ pc' = "scrape_ret"
               /\ scrapeLog' = Append(scrapeLog,
                                 [url |-> cur.url, ok |-> TRUE, depth |-> cur.depth])
               /\ pace' = paceEnd(paceStart(pace, now), now, FALSE)
               /\ UNCHANGED stratIdx
          ELSE /\ stratIdx' = 1
               /\ pc' = "scrape_try"
               /\ pace' = paceStart(pace, now)
               /\ UNCHANGED <<ret, scrapeLog>>
  /\ lastError' = "undefined"
  /\ attempts' = <<>>
  /\ UNCHANGED unitVars
  /\ UNCHANGED <<http, cache, cache0, cacheMode, now, maxPages, req, response, visited,
                 results, queue, cur, crawlData, skipped, storeCalls>>

\* lastError = error in the catch of the strategy loop
catchKeepFirst(old, error) == IF old = "undefined" THEN error ELSE old
catchStrategyError(old, error) == error

\* One turn of `for (const strategy of strategies)`: the strategy is called; a
\* result with content is stamped, cached and returned; a result without
\* content falls through to the next strategy; a throw is caught into
\* lastError.
ScrapeTryStrategy ==
  /\ pc = "scrape_try"
  /\ stratIdx <= Len(strategies)
  /\ LET name == strategies[stratIdx]
         r == strategyFn(name, cur.url, http[cur.url])
         t == now + r.slept
         data == [present |-> TRUE, url |-> cur.url, links |-> r.value.links,
                  scraped_at |-> toISOString(t), method |-> name,
                  expires_at |-> 0]
     IN /\ now' = t
        /\ attempts' = Append(attempts, [name |-> name, threw |-> r.threw,
                                         content |-> r.value.content,
                                         error |-> r.error,
                                         slept |-> r.slept, calls |-> r.calls])
        /\ IF ~r.threw /\ r.value.content # ""
             THEN /\ cache' = cacheResult(cur.url, data, cacheMode, cache, t)
                  /\ ret' = [threw |-> FALSE, error |-> NoError, success |-> TRUE,
                             cached |-> FALSE, data |-> data]
                  /\ pc' = "scrape_ret"
                  /\ scrapeLog' = Append(scrapeLog,
                                    [url |-> cur.url, ok |-> TRUE, depth |-> cur.depth])
                  /\ pace' = paceEnd(pace, t, FALSE)
                  /\ UNCHANGED <<stratIdx, lastError>>
             ELSE /\ stratIdx' = stratIdx + 1
                  /\ lastError' = IF r.threw
                                    THEN catchStrategyError(lastError, r.error)
                                    ELSE lastError
                  /\ UNCHANGED <<cache, ret, pc, scrapeLog, pace>>
  /\ UNCHANGED unitVars
  /\ UNCHANGED <<http, cache0, cacheMode, maxPages, req, response, visited,
                 results, queue, cur, crawlData, skipped, storeCalls>>

\* After the loop: throw new Error(`All scraping strategies failed. Last error:
\* ${lastError?.message}`).
ScrapeExhausted ==
  /\ pc = "scrape_try"
  /\ stratIdx > Len(strategies)
  /\ ret' = [NoRet EXCEPT !.threw = TRUE,
                          !.error = [msg |-> "All scraping strategies failed. Last error: ",
                                     last |-> lastError]]
  /\ pc' = "scrape_ret"
  /\ scrapeLog' = Append(scrapeLog,
                    [url |-> cur.url, ok |-> FALSE, depth |-> cur.depth])
  /\ pace' = paceEnd(pace, now, TRUE)
  /\ UNCHANGED unitVars
  /\ UNCHANGED <<http, cache, cache0, cacheMode, now, maxPages, req, response, visited,
                 results, queue, cur, stratIdx, lastError, crawlData, attempts,
                 skipped, storeCalls>>

\* ----------------------------------------------------------- crawlRecursive

\* while (queue.length > 0 && results.length < CONFIG.scraper.max_pages_per_domain)
loopCondInclusive(q, res, cap) == Len(q) > 0 /\ Len(res) <= cap
loopCond(q, res, cap) == Len(q) > 0 /\ Len(res) < cap

\* queue.shift(): the queue without its head
shiftKeepsHead(q) == q
shift(q) == Tail(q)

\* visited.add(url)
visitedAddNothing(v, u) == v
visitedAdd(v, u) == v \cup {u}

\* if (depth < maxDepth && result.data.links)
followLinksInclusive(depth, maxDepth) == depth <= maxDepth
followLinks(depth, maxDepth) == depth < maxDepth

\* linkDomain === domain
anyDomain(link, domain) == TRUE
sameDomain(link, domain) == extractDomain(link) = domain

\* for (const link of result.data.links) if (linkDomain === domain &&
\* !visited.has(link)) queue.push({url: link, depth: depth + 1}). visited does
\* not change during the loop. parentDepth records the depth of the page the
\* link was found on.
pushLinks(q, links, domain, vis, depth) ==
  LET keep(link) == sameDomain(link, domain) /\ link \notin vis
      kept == SelectSeq(links, keep)
  IN q \o [i \in 1 .. Len(kept) |->
             [url |-> kept[i], depth |-> depth + 1, parentDepth |-> depth]]

\* One turn of the while loop up to the call of scrapeSingleUrl: the head of
\* the queue is taken; an entry already visited or deeper than maxDepth is
\* dropped (continue); otherwise it is marked visited and scraped.
CrawlDequeue ==
  /\ pc = "crawl_loop"
  /\ loopCond(queue, results, maxPages)
  /\ LET head == Head(queue)
     IN /\ queue' = shift(queue)
        /\ IF head.url \in visited \/ head.depth > req.depth
             THEN /\ skipped' = TRUE
                  /\ UNCHANGED <<visited, cur, pc>>
             ELSE /\ visited' = visitedAdd(visited, head.url)
                  /\ cur' = head
                  /\ pc' = "scrape_cache"
                  /\ UNCHANGED skipped
  /\ UNCHANGED <<pace, unitVars>>
  /\ UNCHANGED <<http, cache, cache0, cacheMode, now, maxPages, req, response, results,
                 stratIdx, lastError, ret, crawlData, attempts, scrapeLog,
                 storeCalls>>

\* scrapeSingleUrl returned inside the try of the loop: the page is pushed to
\* results, its same-domain links are queued when depth < maxDepth, and
\* sleep(delay_between_requests_ms) follows.
CrawlPageDone ==
  /\ pc = "scrape_ret"
  /\ req.mode = "auto"
  /\ ~ret.threw
  /\ IF ret.success
       THEN /\ results' = Append(results, ret.data)
            /\ queue' = IF followLinks(cur.depth, req.depth)
                          THEN pushLinks(queue, ret.data.links,
                                         extractDomain(req.url), visited, cur.depth)
                          ELSE queue
       ELSE UNCHANGED <<results, queue>>
  /\ now' = now + delay_between_requests_ms
  /\ pc' = "crawl_loop"
  /\ UNCHANGED <<pace, unitVars>>
  /\ UNCHANGED <<http, cache, cache0, cacheMode, maxPages, req, response, visited, cur,
                 stratIdx, lastError, ret, crawlData, attempts, scrapeLog,
                 skipped, storeCalls>>

\* What the catch of the loop leaves of a throw of scrapeSingleUrl.
catchRethrows(r) == r
catchPageError(r) == [r EXCEPT !.threw = FALSE, !.error = NoError]

\* scrapeSingleUrl threw inside the try of the loop: the catch logs the error;
\* the sleep is skipped and the loop goes on.
CrawlPageFailed ==
  /\ pc = "scrape_ret"
  /\ req.mode = "auto"
  /\ ret.threw
  /\ ret' = catchPageError(ret)
  /\ pc' = IF ret'.threw THEN "crawl_ret" ELSE "crawl_loop"
  /\ UNCHANGED <<pace, unitVars>>
  /\ UNCHANGED <<http, cache, cache0, cacheMode, now, maxPages, req, response, visited,
                 results, queue, cur, stratIdx, lastError, crawlData, attempts,
                 scrapeLog, skipped, storeCalls>>

\* The loop condition fails: crawlRecursive returns {success: true, data:
\* {start_url, pages_crawled: results.length, pages: results, max_depth}}.
CrawlReturn ==
  /\ pc = "crawl_loop"
  /\ ~loopCond(queue, results, maxPages)
  /\ crawlData' = [start_url |-> req.url, pages_crawled |-> Len(results),
                   pages |-> results, max_depth |-> req.depth]
  /\ ret' = [NoRet EXCEPT !.success = TRUE]
  /\ pc' = "crawl_ret"
  /\ UNCHANGED <<pace, unitVars>>
  /\ UNCHANGED <<http, cache, cache0, cacheMode, now, maxPages, req, response, visited,
                 results, queue, cur, stratIdx, lastError, attempts, scrapeLog,
                 skipped, storeCalls>>

\* ------------------------------------------------- handleCrawl, second half

\* The response of the catch of handleCrawl
catchReportsSuccess(error) ==
  [NoResponse EXCEPT !.success = TRUE, !.error = error, !.returned = TRUE]
handleCrawlCatch(error) ==
  [NoResponse EXCEPT !.success = FALSE, !.error = error, !.returned = TRUE]

\* The response of handleCrawl when scrapeSingleUrl or crawlRecursive has
\* returned: {success: true, job_id, mode, source, result}, where
\* result.storage is what storeResult returned ("none" when it was not called).
handleCrawlReturnStored(mode, storage) ==
  [success |-> storage # "failed", error |-> NoError, mode |-> mode,
   storage |-> storage, returned |-> TRUE]
handleCrawlReturn(mode, storage) ==
  [success |-> TRUE, error |-> NoError, mode |-> mode,
   storage |-> storage, returned |-> TRUE]

\* `result` is there: storeResult is called when result.success, its outcome
\* (it catches its own errors) goes to result.storage, and handleCrawl returns
\* {success: true, job_id, mode, source, result}.
HandleCrawlReturn ==
  /\ \/ pc = "scrape_ret" /\ req.mode = "manual"
     \/ pc = "crawl_ret"
  /\ ~ret.threw
  /\ \E stored \in {"ok", "failed"} :
       IF ret.success
         THEN /\ storeCalls' = storeCalls + 1
              /\ response' = handleCrawlReturn(req.mode, stored)
         ELSE /\ stored = "ok"
              /\ UNCHANGED storeCalls
              /\ response' = handleCrawlReturn(req.mode, "none")
  /\ pc' = "done"
  /\ UNCHANGED <<pace, unitVars>>
  /\ UNCHANGED <<http, cache, cache0, cacheMode, now, maxPages, req, visited, results,
                 queue, cur, stratIdx, lastError, ret, crawlData, attempts,
                 scrapeLog, skipped>>

\* The call threw: the catch of handleCrawl returns {success: false, job_id,
\* error: error.message}.
HandleCrawlThrown ==
  /\ \/ pc = "scrape_ret" /\ req.mode = "manual"
     \/ pc = "crawl_ret"
  /\ ret.threw
  /\ response' = handleCrawlCatch(ret.error)
  /\ pc' = "done"
  /\ UNCHANGED <<pace, unitVars>>
  /\ UNCHANGED <<http, cache, cache0, cacheMode, now, maxPages, req, visited, results,
                 queue, cur, stratIdx, lastError, ret, crawlData, attempts,
                 scrapeLog, skipped, storeCalls>>

Next ==
  \/ \E params \in Requests : HandleCrawl(params)
  \/ ScrapeCheckCache
  \/ ScrapeTryStrategy
  \/ ScrapeExhausted
  \/ CrawlDequeue
  \/ CrawlPageDone
  \/ CrawlPageFailed
  \/ CrawlReturn
  \/ HandleCrawlReturn
  \/ HandleCrawlThrown

Spec == Init /\ [][Next]_vars

\* crawlRecursive and handleCrawl are one async call each: every await in them
\* resolves or rejects, so a step that can be taken is taken.
FairSpec == Spec /\ WF_vars(Next)

\* ================================================= the page cache on its own

\* Every variable of a handleCrawl call is as before the call.
CrawlIdle ==
  /\ http = AllOk
  /\ cache0 = cache
  /\ maxPages = MaxPagesSmall
  /\ pc = "idle"
  /\ req = [url |-> "", mode |-> "", depth |-> 0]
  /\ response = NoResponse
  /\ visited = {}
  /\ results = <<>>
  /\ queue = <<>>
  /\ cur = NoCur
  /\ stratIdx = 0
  /\ lastError = "undefined"
  /\ ret = NoRet
  /\ crawlData = NoCrawlData
  /\ attempts = <<>>
  /\ scrapeLog = <<>>
  /\ skipped = FALSE
  /\ storeCalls = 0
  /\ pace = NoPace

crawlVars == <<http, cache0, maxPages, pc, req, response, visited, results, queue,
               cur, stratIdx, lastError, ret, crawlData, attempts, scrapeLog,
               skipped, storeCalls, pace>>

\* The number of times the clock is moved between cache calls.
MaxTicks == 3

CacheUrls == {S, A1}
EmptyCache == [u \in ValidUrls |-> NoEntry]

\* The Documents handed to cacheResult at time t: scrapeSingleUrl stamps
\* scraped_at before the call, so the stamp is t or a little earlier.
Documents(u, t) ==
  { [present |-> TRUE, url |-> u, links |-> k.links,
     scraped_at |-> toISOString(t - k.lag), method |-> k.method,
     expires_at |-> 0] :
      k \in { [links |-> <<>>, method |-> "fetch", lag |-> 0],
              [links |-> <<A1, B1>>, method |-> "api", lag |-> 0],
              [links |-> <<A1, B1>>, method |-> "api", lag |-> KvPutLag] } }

\* The Document of a cache entry: what JSON.parse gives back of what
\* JSON.stringify(data) stored.
Document(e) ==
  [url |-> e.url, links |-> e.links, scraped_at |-> e.scraped_at,
   method |-> e.method]

\* What the catch of checkCache and of cacheResult leaves of a throw of
\* cache.get / cache.put.
cacheErrorEscapes(threw) == threw
catchCacheError(threw) == FALSE

InitCache ==
  /\ cacheMode \in {"ok", "none", "readErr", "writeErr"}
  /\ cache \in {EmptyCache, FullCache}
  /\ now = Now0
  /\ CrawlIdle
  /\ cu = [NoCacheCall EXCEPT !.last = cache]
  /\ rt = NoRetry
  /\ fd = NoFeedCheck
  /\ wk = NoWorker
  /\ cr = NoRace
  /\ rl = NoLimiter
  /\ qc = NoConsumer

\* await cacheResult(u, d, env.CACHE)
CachePut(u, d) ==
  /\ pc = "idle"
  /\ cache' = cacheResult(u, d, cacheMode, cache, now)
  /\ cu' = [cu EXCEPT !.op = "put", !.url = u, !.doc = d, !.got = NoEntry,
                      !.threw = catchCacheError(cacheMode = "writeErr"),
                      !.at = now, !.last = [cu.last EXCEPT ![u] = d]]
  /\ UNCHANGED <<cacheMode, now, crawlVars, rt, fd, wk, cr, rl, qc>>

\* await checkCache(u, env.CACHE)
CacheGet(u) ==
  /\ pc = "idle"
  /\ cu' = [cu EXCEPT !.op = "get", !.url = u, !.doc = NoEntry,
                      !.got = checkCache(u, cacheMode, cache, now),
                      !.threw = catchCacheError(cacheMode = "readErr"),
                      !.at = now]
  /\ UNCHANGED <<cache, cacheMode, now, crawlVars, rt, fd, wk, cr, rl, qc>>

\* Time passes between two calls.
CacheTick(dt) ==
  /\ pc = "idle"
  /\ cu.ticks < MaxTicks
  /\ now' = now + dt
  /\ cu' = [cu EXCEPT !.ticks = cu.ticks + 1]
  /\ UNCHANGED <<cache, cacheMode, crawlVars, rt, fd, wk, cr, rl, qc>>

\* A manual handleCrawl call, that is one scrapeSingleUrl call, on the cache as
\* it was found.
ScrapeOnFoundCache(params) ==
  /\ cu.op = "none" /\ cu.ticks = 0
  /\ params.mode = "manual" /\ params.url \in CacheUrls
  /\ HandleCrawl(params)

NextCache ==
  \/ \E u \in CacheUrls : \E d \in Documents(u, now) : CachePut(u, d)
  \/ \E u \in CacheUrls : CacheGet(u)
  \/ \E dt \in {1, maxAge - 1} : CacheTick(dt)
  \/ \E params \in Requests : ScrapeOnFoundCache(params)
  \/ ScrapeCheckCache
  \/ ScrapeTryStrategy
  \/ ScrapeExhausted
  \/ HandleCrawlReturn
  \/ HandleCrawlThrown

SpecCache == InitCache /\ [][NextCache]_vars

\* ========================================================= retry on its own

\* The largest maxRetries option tried.
MaxRetriesTried == 6

\* What one invocation of the operation does: it returns a value or throws one
\* of two errors.
FnOutcomes ==
  { Returned([NoValue EXCEPT !.content = "r"], 0, 1),
    Thrown("e1", 0, 1), Thrown("e2", 0, 1) }

\* for (let i = 0; i < maxRetries; i++)
retryLoopCondInclusive(i, maxRetries) == i <= maxRetries
retryLoopCond(i, maxRetries) == i < maxRetries

\* retry(fn, {maxRetries}) is called: lastError is undefined, delay is
\* initialDelay, i is 0. outs[k] is what the k-th invocation of fn will do.
InitRetry ==
  /\ cacheMode = "ok"
  /\ cache = EmptyCache
  /\ now = Now0
  /\ CrawlIdle
  /\ cu = NoCacheCall
  /\ \E n \in 0 .. MaxRetriesTried :
       \E o \in [1 .. MaxRetriesTried + 1 -> FnOutcomes] :
         rt = [NoRetry EXCEPT !.op = "retry", !.maxRetries = n, !.outs = o,
                              !.delay = initialDelay, !.state = "loop"]
  /\ fd = NoFeedCheck
  /\ wk = NoWorker
  /\ cr = NoRace
  /\ rl = NoLimiter
  /\ qc = NoConsumer

\* One turn of the loop: fn is invoked; its value is returned, or its error is
\* kept in lastError and, unless this was the last turn, sleep(delay) follows
\* and delay grows.
RetryAttempt ==
  /\ rt.op = "retry" /\ rt.state = "loop"
  /\ retryLoopCond(rt.i, rt.maxRetries)
  /\ LET o == rt.outs[rt.i + 1]
     IN rt' = IF ~o.threw
                THEN [rt EXCEPT !.calls = rt.calls + 1, !.state = "returned",
                                !.value = o.value]
                ELSE IF rt.i < rt.maxRetries - 1
                  THEN [rt EXCEPT !.calls = rt.calls + 1, !.lastError = o.error,
                                  !.sleeps = Append(rt.sleeps, rt.delay),
                                  !.delay = nextDelay(rt.delay),
                                  !.i = rt.i + 1]
                  ELSE [rt EXCEPT !.calls = rt.calls + 1, !.lastError = o.error,
                                  !.i = rt.i + 1]
  /\ UNCHANGED <<cache, cacheMode, now, crawlVars, cu, fd, wk, cr, rl, qc>>

\* After the loop: throw lastError.
RetryThrow ==
  /\ rt.op = "retry" /\ rt.state = "loop"
  /\ ~retryLoopCond(rt.i, rt.maxRetries)
  /\ rt' = [rt EXCEPT !.state = "thrown", !.error = rt.lastError]
  /\ UNCHANGED <<cache, cacheMode, now, crawlVars, cu, fd, wk, cr, rl, qc>>

NextRetry ==
  \/ RetryAttempt
  \/ RetryThrow

SpecRetry == InitRetry /\ [][NextRetry]_vars

\* ============================================================ rss_handler.js

\* F of the value of x, with x worked out once (a `const v = x` of the code)
With(x, F(_)) == CHOOSE r \in {F(v) : v \in {x}} : TRUE

\* A string is the sequence of its characters.
UpperCase == <<"A", "B", "C", "D", "E", "F", "G", "H", "I", "J", "K", "L", "M",
               "N", "O", "P", "Q", "R", "S", "T", "U", "V", "W", "X", "Y", "Z">>
LowerCase == <<"a", "b", "c", "d", "e", "f", "g", "h", "i", "j", "k", "l", "m",
               "n", "o", "p", "q", "r", "s", "t", "u", "v", "w", "x", "y", "z">>
Digits == {"0", "1", "2", "3", "4", "5", "6", "7", "8", "9"}

\* String.prototype.toLowerCase
toLowerChar(c) ==
  IF \E k \in DOMAIN UpperCase : UpperCase[k] = c
    THEN LowerCase[CHOOSE k \in DOMAIN UpperCase : UpperCase[k] = c]
    ELSE c
toLowerCase(s) ==
  With(s, LAMBDA str : [i \in DOMAIN str |-> toLowerChar(str[i])])

\* \w of a regular expression, and \b between positions p - 1 and p of text
\* (the ends of the text count as non-word characters)
isWordChar(c) ==
  \/ \E k \in DOMAIN LowerCase : c = LowerCase[k] \/ c = UpperCase[k]
  \/ c \in Digits \/ c = "_"
wordAt(text, p) == p >= 1 /\ p <= Len(text) /\ isWordChar(text[p])
wordBoundary(text, p) == wordAt(text, p - 1) # wordAt(text, p)

\* The pattern `\b${escapeRegex(keyword)}\b` matches at position p of text.
\* With 'i' the letters are compared without case.
matchesAt(kw, text, p) ==
  /\ p + Len(kw) - 1 <= Len(text)
  /\ toLowerCase(SubSeq(text, p, p + Len(kw) - 1)) = toLowerCase(kw)
  /\ wordBoundary(text, p)
  /\ wordBoundary(text, p + Len(kw))

\* text.match(regex) with 'g': the matches from left to right, the search
\* going on behind each match; the number of matches (0 for null).
RECURSIVE matchCount(_, _, _)
matchCount(kw, text, p) ==
  IF p > Len(text) \/ kw = <<>>
    THEN 0
    ELSE IF matchesAt(kw, text, p)
      THEN 1 + matchCount(kw, text, p + Len(kw))
      ELSE matchCount(kw, text, p + 1)

\* titleText.includes(keyword), on whole words only in the variant
includesWholeWord(text, kw) ==
  \E p \in 1 .. Len(text) : matchesAt(kw, text, p)
includes(text, kw) ==
  \E p \in 1 .. Len(text) - Len(kw) + 1 : SubSeq(text, p, p + Len(kw) - 1) = kw

\* Numbers with decimals are counted in thousandths, a score in hundredths.
\* parseFloat(score.toFixed(2)): the nearest hundredth.
toFixed2(x) == (x + 5) \div 10

kwBiblical == <<"b", "i", "b", "l", "i", "c", "a", "l">>
kwProphecy == <<"p", "r", "o", "p", "h", "e", "c", "y">>
kwEndTimes == <<"e", "n", "d", " ", "t", "i", "m", "e", "s">>
kwEnd == <<"e", "n", "d">>
\* the title of the worked example
TitleScenario ==
  <<"B", "i", "b", "l", "i", "c", "a", "l", " ", "p", "r", "o", "p", "h",
    "e", "c", "y", " ", "a", "b", "o", "u", "t", " ", "e", "n", "d", " ",
    "t", "i", "m", "e", "s", " ", "r", "e", "v", "e", "a", "l", "s", ".",
    ".", ".">>
\* "end times" inside other words
TitleWeekend ==
  <<"W", "e", "e", "k", "e", "n", "d", " ", "t", "i", "m", "e", "s", "t",
    "a", "m", "p", "s">>
TitleNews == <<"L", "o", "c", "a", "l", " ", "n", "e", "w", "s">>
TitleUnbiblical ==
  <<"P", "r", "o", "p", "h", "e", "c", "y", ",", " ", "u", "n", "b", "i",
    "b", "l", "i", "c", "a", "l", "?">>
DescTwice ==
  <<"p", "r", "o", "p", "h", "e", "c", "y", " ", "P", "R", "O", "P", "H",
    "E", "C", "Y", " ", "b", "i", "b", "l", "i", "c", "a", "l">>
DescBiblicalTwice ==
  <<"b", "i", "b", "l", "i", "c", "a", "l", ",", " ", "B", "i", "b", "l",
    "i", "c", "a", "l", ".">>

\* ---------------------------------------------------------------- cleanText

entLt == <<"&", "l", "t", ";">>
entGt == <<"&", "g", "t", ";">>
entAmp == <<"&", "a", "m", "p", ";">>
entQuot == <<"&", "q", "u", "o", "t", ";">>
entApos == <<"&", "#", "3", "9", ";">>
entNbsp == <<"&", "n", "b", "s", "p", ";">>
TitleNewsRaw ==
  <<" ", "<", "b", ">", "L", "o", "c", "a", "l", "<", "/", "b", ">", "&",
    "n", "b", "s", "p", ";", " ", "n", "e", "w", "s", "\n">>
TitleBlank == <<" ", "\n", " ">>
DescEntities ==
  <<"P", "r", "o", "p", "h", "e", "c", "y", " ", "&", "a", "m", "p", ";",
    " ", "&", "l", "t", ";", "e", "n", "d", " ", "t", "i", "m", "e", "s",
    "&", "g", "t", ";", " ", "&", "a", "m", "p", ";", "l", "t", ";">>

\* \s of a regular expression
isSpace(c) == c \in {" ", "\n", "\t", "\r"}

\* .replace(/<[^>]+>/g, ''): a "<", one or more characters other than ">",
\* and the ">" that follows them. tagEnd is the position of that ">" for a
\* tag that starts at position p (0 when none starts there).
tagEnd(s, p) ==
  IF s[p] = "<" /\ \E q \in p + 2 .. Len(s) : s[q] = ">" /\ \A d \in p + 1 .. q - 1 : s[d] # ">"
    THEN CHOOSE q \in p + 2 .. Len(s) : s[q] = ">" /\ \A d \in p + 1 .. q - 1 : s[d] # ">"
    ELSE 0
RECURSIVE stripTagsFrom(_, _)
stripTagsFrom(s, p) ==
  IF p > Len(s)
    THEN <<>>
    ELSE IF tagEnd(s, p) # 0
      THEN stripTagsFrom(s, tagEnd(s, p) + 1)
      ELSE <<s[p]>> \o stripTagsFrom(s, p + 1)
stripTags(text) == With(text, LAMBDA s : stripTagsFrom(s, 1))

\* .replace(/pat/g, rep) for a pattern without special characters
RECURSIVE replaceAllFrom(_, _, _, _)
replaceAllFrom(s, pat, rep, p) ==
  IF p > Len(s)
    THEN <<>>
    ELSE IF p + Len(pat) - 1 <= Len(s) /\ SubSeq(s, p, p + Len(pat) - 1) = pat
      THEN rep \o replaceAllFrom(s, pat, rep, p + Len(pat))
      ELSE <<s[p]>> \o replaceAllFrom(s, pat, rep, p + 1)
replaceAll(text, pat, rep) == With(text, LAMBDA s : replaceAllFrom(s, pat, rep, 1))

\* .replace(/\s+/g, ' ')
RECURSIVE collapseSpacesFrom(_, _)
collapseSpacesFrom(s, p) ==
  IF p > Len(s)
    THEN <<>>
    ELSE IF isSpace(s[p])
      THEN IF p < Len(s) /\ isSpace(s[p + 1])
             THEN collapseSpacesFrom(s, p + 1)
             ELSE <<" ">> \o collapseSpacesFrom(s, p + 1)
      ELSE <<s[p]>> \o collapseSpacesFrom(s, p + 1)
collapseSpaces(text) == With(text, LAMBDA s : collapseSpacesFrom(s, 1))

\* .trim()
trim(text) ==
  With(text, LAMBDA s :
    IF \A i \in DOMAIN s : isSpace(s[i])
      THEN <<>>
      ELSE SubSeq(s,
                  CHOOSE i \in DOMAIN s :
                    ~isSpace(s[i]) /\ \A j \in 1 .. i - 1 : isSpace(s[j]),
                  CHOOSE i \in DOMAIN s :
                    ~isSpace(s[i]) /\ \A j \in i + 1 .. Len(s) : isSpace(s[j])))

\* cleanText: the tags go, then the entities are decoded one kind after the
\* other, then runs of white space become one space, then trim.
cleanText(text) ==
  LET a == stripTags(text)
      b == replaceAll(a, entLt, <<"<">>)
      c == replaceAll(b, entGt, <<">">>)
      d == replaceAll(c, entAmp, <<"&">>)
      e == replaceAll(d, entQuot, <<"\"">>)
      f == replaceAll(e, entApos, <<"'">>)
      g == replaceAll(f, entNbsp, <<" ">>)
  IN trim(collapseSpaces(g))

\* CONFIG.scoring: the table of the documentation (weights 2.0 and 1.0), and a
\* table with finer weights (2.25 and 0.333) and a high-priority keyword that
\* is not in prophecy_keywords.
ConfigDoc ==
  [prophecy_keywords |-> <<kwBiblical, kwProphecy, kwEndTimes>>,
   high_priority_keywords |-> <<kwProphecy, kwEndTimes>>,
   keyword_weights |-> [high |-> 2000, medium |-> 1000]]
ConfigFine ==
  [prophecy_keywords |-> <<kwBiblical, kwProphecy, kwEndTimes>>,
   high_priority_keywords |-> <<kwProphecy, kwEndTimes, kwEnd>>,
   keyword_weights |-> [high |-> 2250, medium |-> 333]]
Configs == {ConfigDoc, ConfigFine}

\* highPriorityKeywords.some(hp => hp.toLowerCase() === keywordLower)
isHighPriority(cfg, kw) ==
  \E k \in DOMAIN cfg.high_priority_keywords :
    toLowerCase(cfg.high_priority_keywords[k]) = toLowerCase(kw)

\* for (const keyword of keywords) { ... score += count * weight }
RECURSIVE keywordScore(_, _, _)
keywordScore(cfg, text, k) ==
  IF k > Len(cfg.prophecy_keywords)
    THEN 0
    ELSE With(toLowerCase(cfg.prophecy_keywords[k]), LAMBDA keywordLower :
           LET count == matchCount(keywordLower, text, 1)
               weight == IF isHighPriority(cfg, keywordLower)
                           THEN cfg.keyword_weights.high
                           ELSE cfg.keyword_weights.medium
           IN count * weight + keywordScore(cfg, text, k + 1))

\* for (const keyword of highPriorityKeywords)
\*   if (titleText.includes(keyword.toLowerCase())) score += 1.0
RECURSIVE titleBonus(_, _, _)
titleBonusWholeWord(cfg, titleText, k) ==
  IF k > Len(cfg.high_priority_keywords)
    THEN 0
    ELSE (IF includesWholeWord(titleText, toLowerCase(cfg.high_priority_keywords[k]))
            THEN 1000 ELSE 0)
         + titleBonus(cfg, titleText, k + 1)
titleBonus(cfg, titleText, k) ==
  IF k > Len(cfg.high_priority_keywords)
    THEN 0
    ELSE (IF includes(titleText, toLowerCase(cfg.high_priority_keywords[k]))
            THEN 1000 ELSE 0)
         + titleBonus(cfg, titleText, k + 1)

\* calculateProphecyScore(item), in hundredths
calculateProphecyScore(cfg, item) ==
  With(toLowerCase(item.title \o <<" ">> \o item.description), LAMBDA text :
    With(toLowerCase(item.title), LAMBDA titleText :
      toFixed2(keywordScore(cfg, text, 1) + titleBonus(cfg, titleText, 1))))


\* ------------------------------------------------------------ the feeds

\* CONFIG.rss_feeds: two enabled feeds and, between them, a disabled one.
rss_feeds ==
  << [url |-> FeedUrl1, name |-> "Prophecy News", enabled |-> TRUE],
     [url |-> FeedUrlOff, name |-> "Paused", enabled |-> FALSE],
     [url |-> FeedUrl2, name |-> "World Watch", enabled |-> TRUE] >>

\* The <item> blocks of the feed documents, each with the text of its <title>,
\* <link> and <description> elements as it stands in the document ("" or <<>>
\* for an element that is missing or empty). Scores under ConfigDoc / ConfigFine are noted.
Blocks1 ==
  << [title |-> TitleNews, link |-> "https://news.example/1",
      description |-> DescTwice],                               \* 5.00 / 4.83
     [title |-> TitleNewsRaw, link |-> "https://news.example/2",
      description |-> <<>>],                                    \* 0 / 0
     [title |-> TitleScenario, link |-> "https://news.example/3",
      description |-> <<>>],                                    \* 7.00 / 7.83
     [title |-> TitleUnbiblical, link |-> "",
      description |-> DescTwice] >>                             \* no link
Blocks2 ==
  << [title |-> TitleWeekend, link |-> "https://watch.example/5",
      description |-> DescBiblicalTwice],                       \* 3.00 / 2.67
     [title |-> <<>>, link |-> "https://watch.example/7",
      description |-> DescTwice],                               \* no title
     [title |-> TitleUnbiblical, link |-> "https://watch.example/6",
      description |-> DescTwice],                               \* 8.00 / 8.08
     [title |-> TitleBlank, link |-> "https://watch.example/8",
      description |-> DescTwice],                               \* blank title
     [title |-> <<>>, link |-> "",
      description |-> DescEntities],                            \* neither
     [title |-> TitleNews, link |-> "https://watch.example/9",
      description |-> DescEntities] >>                          \* 4.00 / 4.50

Reverse(s) == [i \in DOMAIN s |-> s[Len(s) + 1 - i]]

\* What fetch(feed.url) gives: a 200 response with a feed document, a 500
\* response, a rejected promise, or nothing at all ("hang": the server accepts
\* the connection and never answers, and the promise stays pending).
FeedOk(title, blocks) == [status |-> "ok", title |-> title, blocks |-> blocks]
FeedDown(status) == [status |-> status, title |-> "", blocks |-> <<>>]
FeedWebs ==
  { [u \in FeedUrls |->
       CASE u = FeedUrl1 -> a [] u = FeedUrl2 -> b
         [] OTHER -> FeedOk("Paused", Blocks1)] :
      a \in {FeedOk("Prophecy News", Blocks1),
             FeedOk("Prophecy News", Reverse(Blocks1)),
             FeedDown("500"), FeedDown("neterr"), FeedDown("hang")},
      b \in {FeedOk("World Watch", Blocks2), FeedDown("500"), FeedDown("neterr"),
             FeedDown("hang")} }

\* env.RSS_SCORE_THRESHOLD: not set, or the text of a number (hundredths here)
EnvThresholds ==
  {[set |-> FALSE, value |-> 0]} \cup {[set |-> TRUE, value |-> v] : v \in {300, 500, 700}}

\* parseFloat(env.RSS_SCORE_THRESHOLD || '5.0')
envThreshold(v) == IF v.set THEN v.value ELSE 500

\* parseRSSFeed: title, link and description of a block are what cleanText
\* makes of the text of its elements ('' for an element that is not there; the
\* text of a <link> holds no markup); a block gives an entry
\* if (title && link).
hasTitleOrLink(b) == b.title # <<>> \/ b.link # ""
hasTitleAndLink(b) == b.title # <<>> /\ b.link # ""
parseRSSFeed(doc) ==
  With([i \in DOMAIN doc.blocks |->
          [title |-> cleanText(doc.blocks[i].title),
           link |-> doc.blocks[i].link,
           description |-> cleanText(doc.blocks[i].description)]],
       LAMBDA cleaned :
         [title |-> doc.title, items |-> SelectSeq(cleaned, hasTitleAndLink)])

\* feed.items.map(item => ({...item, score: calculateProphecyScore(item)}))
scoreItems(cfg, items) ==
  With(items, LAMBDA its :
    [i \in DOMAIN its |->
       [title |-> its[i].title, link |-> its[i].link,
        description |-> its[i].description,
        score |-> calculateProphecyScore(cfg, its[i])]])

\* scoredItems.filter(item => item.score >= threshold)
qualifiesStrict(item, threshold) == item.score > threshold
qualifies(item, threshold) == item.score >= threshold

filterHighReversed(scoredItems, threshold) ==
  LET keep(item) == qualifies(item, threshold)
  IN Reverse(SelectSeq(scoredItems, keep))
filterHigh(scoredItems, threshold) ==
  LET keep(item) == qualifies(item, threshold)
  IN SelectSeq(scoredItems, keep)

\* fetch(feedUrl): what the web gives for the URL; the promise is rejected
\* (TypeError) for a string that is not a URL.
fetchFeed(web, feedUrl) ==
  IF feedUrl \in DOMAIN web THEN web[feedUrl] ELSE FeedDown("neterr")

\* The fetch of checkSingleFeed is given no signal and no timeout: when the
\* server never answers, the await never ends.
fetchPending(web, feedUrl) == fetchFeed(web, feedUrl).status = "hang"

\* checkSingleFeed(feedUrl, threshold): the fetch, the status test, the parse,
\* the scores and the filter.
checkSingleFeed(feedUrl, threshold, cfg, web) ==
  IF fetchFeed(web, feedUrl).status = "neterr"
    THEN [threw |-> TRUE, error |-> "fetch failed", value |-> <<>>]
    ELSE IF fetchFeed(web, feedUrl).status # "ok"
      THEN [threw |-> TRUE, error |-> "Failed to fetch feed: HTTP 500",
            value |-> <<>>]
      ELSE With(parseRSSFeed(fetchFeed(web, feedUrl)), LAMBDA feed :
             With(scoreItems(cfg, feed.items), LAMBDA scoredItems :
               [threw |-> FALSE, error |-> "",
                value |-> [feed_url |-> feedUrl, feed_title |-> feed.title,
                           total_items |-> Len(feed.items),
                           high_score_items |-> filterHigh(scoredItems, threshold),
                           threshold |-> threshold]]))

\* The message checkRSSFeeds sends to env.SCRAPE_QUEUE for an item (its id and
\* timestamp are left out).
queueJobAuto(item, feed) ==
  [url |-> item.link, mode |-> "auto", source |-> "rss", feed_name |-> feed.name,
   score |-> item.score, title |-> item.title]
queueJob(item, feed) ==
  [url |-> item.link, mode |-> "manual", source |-> "rss", feed_name |-> feed.name,
   score |-> item.score, title |-> item.title]

InitFeed ==
  /\ cacheMode = "ok"
  /\ cache = EmptyCache
  /\ now = Now0
  /\ CrawlIdle
  /\ cu = NoCacheCall
  /\ rt = NoRetry
  /\ \E c \in Configs, e \in EnvThresholds, w \in FeedWebs :
       fd = [NoFeedCheck EXCEPT !.cfg = c, !.env = e, !.web = w]
  /\ wk = NoWorker
  /\ cr = NoRace
  /\ rl = NoLimiter
  /\ qc = NoConsumer

\* CONFIG.rss_feeds.filter(f => f.enabled)
allFeeds(feeds) == feeds
enabledFeeds(feeds) == SelectSeq(feeds, LAMBDA f : f.enabled)

\* checkRSSFeeds up to its loop: the enabled feeds, the threshold of the
\* environment, the empty summary.
CheckRSSFeeds ==
  /\ fd.op = "none" /\ pc = "idle"
  /\ fd' = [fd EXCEPT !.op = "scheduled", !.pcF = "feed",
                      !.feeds = enabledFeeds(rss_feeds),
                      !.threshold = envThreshold(fd.env),
                      !.feedIdx = 1]
  /\ UNCHANGED <<cache, cacheMode, now, crawlVars, cu, rt, wk, cr, rl, qc>>

\* One turn of `for (const feed of feeds)` up to the loop over the items:
\* checkSingleFeed returns and feeds_checked is counted, or it throws and the
\* catch records {feed, error}.
CheckFeed ==
  /\ fd.op = "scheduled" /\ fd.pcF = "feed"
  /\ fd.feedIdx <= Len(fd.feeds)
  /\ ~fetchPending(fd.web, fd.feeds[fd.feedIdx].url)
  /\ \E feed \in {fd.feeds[fd.feedIdx]} :
     \E r \in {checkSingleFeed(feed.url, fd.threshold, fd.cfg, fd.web)} :
        fd' = IF r.threw
                THEN [fd EXCEPT !.results.errors =
                                   Append(@, [feed |-> feed.name, error |-> r.error]),
                                !.fetched = Append(@, feed.url),
                                !.feedIdx = fd.feedIdx + 1]
                ELSE [fd EXCEPT !.results.feeds_checked = @ + 1,
                                !.fetched = Append(@, feed.url),
                                !.feedResult = r.value,
                                !.scored = Append(@,
                                   [feed |-> feed,
                                    items |-> scoreItems(fd.cfg,
                                                parseRSSFeed(fd.web[feed.url]).items)]),
                                !.itemIdx = 1,
                                !.pcF = "send"]
  /\ UNCHANGED <<cache, cacheMode, now, crawlVars, cu, rt, wk, cr, rl, qc>>

\* The turn of a feed whose server never answers: the fetch is made and
\* checkRSSFeeds waits for it.
CheckFeedPending ==
  /\ fd.op = "scheduled" /\ fd.pcF = "feed"
  /\ fd.feedIdx <= Len(fd.feeds)
  /\ fetchPending(fd.web, fd.feeds[fd.feedIdx].url)
  /\ fd' = [fd EXCEPT !.fetched = Append(@, fd.feeds[fd.feedIdx].url),
                      !.pcF = "fetching"]
  /\ UNCHANGED <<cache, cacheMode, now, crawlVars, cu, rt, wk, cr, rl, qc>>

\* results.high_score_items.push(item); results.scrapes_triggered++;
triggeredUncounted(summary, item) ==
  [summary EXCEPT !.high_score_items = Append(@, item)]
triggered(summary, item) ==
  [summary EXCEPT !.high_score_items = Append(@, item),
                  !.scrapes_triggered = @ + 1]

\* One turn of `for (const item of feedResult.high_score_items)`: the send
\* resolves and the item is pushed and counted, or it rejects and the catch of
\* the feed records {feed, error}, which ends the turn of this feed.
SendJob(sendOk) ==
  /\ fd.op = "scheduled" /\ fd.pcF = "send"
  /\ fd.itemIdx <= Len(fd.feedResult.high_score_items)
  /\ LET feed == fd.feeds[fd.feedIdx]
         item == fd.feedResult.high_score_items[fd.itemIdx]
         job == queueJob(item, feed)
     IN fd' = IF sendOk
                THEN [fd EXCEPT !.queue = Append(@, job),
                                !.sends = Append(@, [job |-> job, ok |-> TRUE]),
                                !.results = triggered(@, item),
                                !.itemIdx = fd.itemIdx + 1]
                ELSE [fd EXCEPT !.sends = Append(@, [job |-> job, ok |-> FALSE]),
                                !.results.errors =
                                   Append(@, [feed |-> feed.name,
                                              error |-> "Queue send failed"]),
                                !.feedIdx = fd.feedIdx + 1,
                                !.pcF = "feed"]
  /\ UNCHANGED <<cache, cacheMode, now, crawlVars, cu, rt, wk, cr, rl, qc>>

\* The loop over the items is over: the next feed.
FeedItemsDone ==
  /\ fd.op = "scheduled" /\ fd.pcF = "send"
  /\ fd.itemIdx > Len(fd.feedResult.high_score_items)
  /\ fd' = [fd EXCEPT !.feedIdx = fd.feedIdx + 1, !.pcF = "feed"]
  /\ UNCHANGED <<cache, cacheMode, now, crawlVars, cu, rt, wk, cr, rl, qc>>

\* After the loop over the feeds: storeResult (which catches its own errors),
\* then return results.
CheckRSSFeedsReturn ==
  /\ fd.op = "scheduled" /\ fd.pcF = "feed"
  /\ fd.feedIdx > Len(fd.feeds)
  /\ \E stored \in {"ok", "failed"} :
       fd' = [fd EXCEPT !.stored = stored, !.pcF = "done"]
  /\ UNCHANGED <<cache, cacheMode, now, crawlVars, cu, rt, wk, cr, rl, qc>>

\* The handleRSS calls tried: a feed URL that is missing, malformed or good,
\* with no threshold, the threshold 0 or the threshold 4.5.
RssRequests ==
  { [feed_url |-> u, threshold |-> th] :
      u \in {"", BadUrl, FeedUrl1, FeedUrl2},
      th \in {[set |-> FALSE, value |-> 0], [set |-> TRUE, value |-> 0],
              [set |-> TRUE, value |-> 450]} }

\* if (!feed_url || !isValidUrl(feed_url))
invalidFeedUrlMissingOnly(feed_url) == feed_url = ""
invalidFeedUrl(feed_url) == feed_url = "" \/ ~isValidUrl(feed_url)

\* threshold || parseFloat(env.RSS_SCORE_THRESHOLD || '5.0')
scoreThreshold(threshold, env) ==
  IF threshold.set /\ threshold.value # 0 THEN threshold.value
                                          ELSE envThreshold(env)

\* handleRSS: the test of the feed URL, then checkSingleFeed with the
\* threshold of the request or of the environment; what checkSingleFeed
\* throws is returned as {success: false, error}.
HandleRSS(params) ==
  /\ fd.op = "none" /\ pc = "idle"
  /\ IF invalidFeedUrl(params.feed_url)
       THEN fd' = [fd EXCEPT !.op = "rss", !.pcF = "done", !.params = params,
                             !.response = [returned |-> TRUE, success |-> FALSE,
                                           error |-> "Invalid feed URL provided",
                                           result |-> <<>>]]
       ELSE IF fetchPending(fd.web, params.feed_url)
         THEN fd' = [fd EXCEPT !.op = "rss", !.pcF = "fetching", !.params = params,
                               !.threshold = scoreThreshold(params.threshold, fd.env),
                               !.fetched = Append(@, params.feed_url)]
       ELSE \E th \in {scoreThreshold(params.threshold, fd.env)} :
            \E r \in {checkSingleFeed(params.feed_url, th, fd.cfg, fd.web)} :
               fd' = [fd EXCEPT !.op = "rss", !.pcF = "done", !.params = params,
                                !.threshold = th,
                                !.fetched = Append(@, params.feed_url),
                                !.response =
                                   IF r.threw
                                     THEN [returned |-> TRUE, success |-> FALSE,
                                           error |-> r.error, result |-> <<>>]
                                     ELSE [returned |-> TRUE, success |-> TRUE,
                                           error |-> "", result |-> r.value]]
  /\ UNCHANGED <<cache, cacheMode, now, crawlVars, cu, rt, wk, cr, rl, qc>>

\* A manual handleCrawl call, before any feed call or after a handleRSS call
\* has returned
CrawlOnRequest(params) ==
  /\ fd.op = "none" \/ (fd.op = "rss" /\ fd.response.returned)
  /\ params.mode = "manual"
  /\ HandleCrawl(params)

NextFeed ==
  \/ CheckRSSFeeds
  \/ CheckFeed
  \/ CheckFeedPending
  \/ \E sendOk \in BOOLEAN : SendJob(sendOk)
  \/ FeedItemsDone
  \/ CheckRSSFeedsReturn
  \/ \E params \in RssRequests : HandleRSS(params)
  \/ \E params \in Requests : CrawlOnRequest(params)
  \/ ScrapeCheckCache
  \/ ScrapeTryStrategy
  \/ ScrapeExhausted
  \/ HandleCrawlThrown

SpecFeed == InitFeed /\ [][NextFeed]_vars

\* The runs in which every call that can go on does go on, for the documented
\* scoring table, no threshold in the environment, the first feed served and
\* the second feed failing or never answering.
InitFeedFair ==
  /\ InitFeed
  /\ fd.cfg = ConfigDoc /\ ~fd.env.set
  /\ fd.web[FeedUrl1] = FeedOk("Prophecy News", Blocks1)
  /\ fd.web[FeedUrl2].status \in {"neterr", "hang"}
FairSpecFeed == InitFeedFair /\ [][NextFeed]_vars /\ WF_vars(NextFeed)


\* ===================================== the fetch handler of the worker on its own

\* The number of requests handled and the number of times the clock is moved
MaxRequests == 3
MaxWorkerTicks == 2

\* index.js: window: 60 (seconds), and the '10' of the limit
window == 60
defaultLimit == 10

\* admin.js: the key used when env.ADMIN_API_KEY is not set
DefaultAdminKey == "admin-secret-key"
AdminKey == "k-7f3a"

\* env of the worker: RATE_LIMIT_REQUESTS not set or "2"; RSS_SCORE_THRESHOLD
\* not set, "1.5" or "3.0" (in hundredths); ADMIN_API_KEY not set ("") or set.
WorkerEnvs ==
  [RATE_LIMIT_REQUESTS : {[set |-> FALSE, value |-> 0], [set |-> TRUE, value |-> 2]},
   RSS_SCORE_THRESHOLD : {[set |-> FALSE, value |-> 0], [set |-> TRUE, value |-> 150],
                          [set |-> TRUE, value |-> 300]},
   ADMIN_API_KEY : {"", AdminKey}]

\* The settings tried with a KV store that throws.
FailingKvEnvs ==
  { e \in WorkerEnvs : /\ ~e.RATE_LIMIT_REQUESTS.set /\ e.ADMIN_API_KEY = ""
                       /\ e.RSS_SCORE_THRESHOLD.value = 150 }

\* request.headers.get(name): null, or the value of the header
Header(v) == [set |-> TRUE, value |-> v]

\* The clients: the CF-Connecting-IP header, or 'unknown' without it
ClientIp == "203.0.113.7"
Clients == {ClientIp, "unknown"}
clientIP(request) == IF request.ip.set /\ request.ip.value # ""
                       THEN request.ip.value ELSE "unknown"

\* The Authorization headers tried
AuthHeaders ==
  {NoHeader, Header(""), Header("Bearer "),
   Header("Bearer " \o AdminKey), Header("Bearer " \o DefaultAdminKey),
   Header("bearer " \o AdminKey), Header("Bearer " \o AdminKey \o " "),
   Header(AdminKey)}

\* The requests tried: a preflight, the health route, an unknown route, the
\* admin routes without a key and with the two keys, and the routes that
\* export and delete with each Authorization header.
AdminRoutes ==
  { <<"GET", "/api/admin/jobs">>, <<"GET", "/api/admin/stats">>,
    <<"GET", "/api/admin/export">>, <<"GET", "/api/admin/config">>,
    <<"GET", "/api/admin/health">>, <<"POST", "/api/admin/clear-cache">>,
    <<"DELETE", "/api/admin/jobs/7">>, <<"GET", "/api/admin/nope">> }
WorkerRequests ==
    { [method |-> m, path |-> "/health", ip |-> i, auth |-> NoHeader] :
        m \in {"GET", "OPTIONS"}, i \in {NoHeader, Header(ClientIp)} }
  \cup
    { [method |-> "GET", path |-> "/nope", ip |-> Header(ClientIp), auth |-> NoHeader] }
  \cup
    { [method |-> r[1], path |-> r[2], ip |-> Header(ClientIp), auth |-> a] :
        r \in AdminRoutes,
        a \in {NoHeader, Header("Bearer " \o AdminKey),
               Header("Bearer " \o DefaultAdminKey)} }
  \cup
    { [method |-> r[1], path |-> r[2], ip |-> Header(ClientIp), auth |-> a] :
        r \in {<<"GET", "/api/admin/export">>, <<"DELETE", "/api/admin/jobs/7">>},
        a \in AuthHeaders }

\* parseInt of the text of a number (the texts are kept in hundredths)
parseInt(value) == value \div 100

\* Math.ceil(a / b)
ceil(a, b) == (a + b - 1) \div b

\* index.js: limit: parseInt(env.RSS_SCORE_THRESHOLD || '10')
rateLimit(env) ==
  IF env.RSS_SCORE_THRESHOLD.set THEN parseInt(env.RSS_SCORE_THRESHOLD.value)
                                 ELSE defaultLimit

\* No value under `rate_limit:${clientId}`
NoLimit == [present |-> FALSE, count |-> 0, reset_at |-> 0]

\* RateLimiter.checkLimit with a working KV store: the value under the key of
\* the client after the call, and what the call returns. (The entry is put
\* with an expirationTtl that ends at reset_at or later, and a call at or
\* after reset_at starts a new window whether it finds the entry or not.)
checkLimitOneMore(kv, clientId, limit, win, t) ==
  LET data == kv[clientId]
  IN IF ~data.present \/ t >= data.reset_at
       THEN [kv |-> [kv EXCEPT ![clientId] =
                       [present |-> TRUE, count |-> 1, reset_at |-> t + win * 1000]],
             allowed |-> TRUE, remaining |-> limit - 1, reset_in |-> win]
       ELSE IF data.count > limit
         THEN [kv |-> kv, allowed |-> FALSE, remaining |-> 0,
               reset_in |-> ceil(data.reset_at - t, 1000)]
         ELSE [kv |-> [kv EXCEPT ![clientId].count = data.count + 1],
               allowed |-> TRUE, remaining |-> limit - (data.count + 1),
               reset_in |-> ceil(data.reset_at - t, 1000)]
checkLimit(kv, clientId, limit, win, t) ==
  LET data == kv[clientId]
  IN IF ~data.present \/ t >= data.reset_at
       THEN [kv |-> [kv EXCEPT ![clientId] =
                       [present |-> TRUE, count |-> 1, reset_at |-> t + win * 1000]],
             allowed |-> TRUE, remaining |-> limit - 1, reset_in |-> win]
       ELSE IF data.count >= limit
         THEN [kv |-> kv, allowed |-> FALSE, remaining |-> 0,
               reset_in |-> ceil(data.reset_at - t, 1000)]
         ELSE [kv |-> [kv EXCEPT ![clientId].count = data.count + 1],
               allowed |-> TRUE, remaining |-> limit - (data.count + 1),
               reset_in |-> ceil(data.reset_at - t, 1000)]

\* catch (error): return { allowed: true, remaining: limit, reset_in: window }
failClosed(kv, limit, win) ==
  [kv |-> kv, allowed |-> FALSE, remaining |-> 0, reset_in |-> win]
failOpen(kv, limit, win) ==
  [kv |-> kv, allowed |-> TRUE, remaining |-> limit, reset_in |-> win]

\* The KV store: working, or throwing on every get, or on every put.
KvModes == {"ok", "getErr", "putErr"}

\* RateLimiter.checkLimit on a KV store in the given mode: the try block and
\* its catch. Every path that allows a call on the value read puts first.
checkLimitKv(kv, mode, clientId, limit, win, t) ==
  LET r == checkLimit(kv, clientId, limit, win, t)
      raised == mode = "getErr" \/ (mode = "putErr" /\ r.allowed)
      out == IF raised THEN failOpen(kv, limit, win) ELSE r
  IN [kv |-> out.kv, allowed |-> out.allowed, remaining |-> out.remaining,
      reset_in |-> out.reset_in, raised |-> raised]

\* admin.js: `Bearer ${env.ADMIN_API_KEY || 'admin-secret-key'}`
expectedAuth(env) ==
  "Bearer " \o (IF env.ADMIN_API_KEY # "" THEN env.ADMIN_API_KEY ELSE DefaultAdminKey)

\* if (authHeader !== expectedAuth)
unauthorizedWhenMissing(authHeader, expected) == ~authHeader.set
unauthorized(authHeader, expected) ==
  ~authHeader.set \/ authHeader.value # expected

\* handleAdmin with a bound and working database: what it returns and the
\* statements it runs on env.DB.
AdminResult(error, success, ops) == [error |-> error, success |-> success, ops |-> ops]
handleAdmin(path, method, authHeader, env) ==
  IF unauthorized(authHeader, expectedAuth(env))
    THEN AdminResult("Unauthorized", FALSE, <<>>)
  ELSE IF path = "/api/admin/jobs" /\ method = "GET"
    THEN AdminResult("", TRUE, <<"getScrapingHistory">>)
  ELSE IF path = "/api/admin/stats" /\ method = "GET"
    THEN AdminResult("", TRUE, <<"getStatistics">>)
  ELSE IF path = "/api/admin/export" /\ method = "GET"
    THEN AdminResult("", TRUE, <<"getScrapingHistory", "exportToCSV">>)
  ELSE IF path = "/api/admin/config" /\ method = "GET"
    THEN AdminResult("", TRUE, <<>>)
  ELSE IF path = "/api/admin/health" /\ method = "GET"
    THEN AdminResult("", TRUE, <<"SELECT 1">>)
  ELSE IF path = "/api/admin/clear-cache" /\ method = "POST"
    THEN AdminResult("", TRUE, <<>>)
  ELSE IF path = "/api/admin/jobs/7" /\ method = "DELETE"
    THEN AdminResult("", TRUE, <<"DELETE FROM scrape_metadata">>)
  ELSE AdminResult("Not Found", FALSE, <<>>)

\* path.startsWith('/api/admin/') for the paths tried
isAdminPath(path) == path \in {r[2] : r \in AdminRoutes}

InitWorker ==
  /\ cacheMode = "ok"
  /\ cache = EmptyCache
  /\ now = Now0
  /\ CrawlIdle
  /\ cu = NoCacheCall
  /\ rt = NoRetry
  /\ fd = NoFeedCheck
  /\ cr = NoRace
  /\ rl = NoLimiter
  /\ qc = NoConsumer
  /\ \E e \in WorkerEnvs, mode \in KvModes :
       /\ mode # "ok" => e \in FailingKvEnvs
       /\ wk = [NoWorker EXCEPT !.on = TRUE, !.env = e, !.kvMode = mode,
                               !.kv = [c \in Clients |-> NoLimit],
                               !.windowStart = [c \in Clients |-> -1],
                               !.allowedInWindow = [c \in Clients |-> 0]]

\* fetch(request, env, ctx): the preflight answer; the rate limit of the
\* client, with status 429 when it is used up; then the route.
Fetch(request) ==
  /\ wk.on /\ wk.requests < MaxRequests
  /\ IF request.method = "OPTIONS"
       THEN wk' = [wk EXCEPT !.requests = @ + 1,
                             !.last = [NoWorkerResponse EXCEPT !.request = request,
                                                               !.status = 200]]
       ELSE
         LET client == clientIP(request)
             rateCheck == checkLimitKv(wk.kv, wk.kvMode, client, rateLimit(wk.env),
                                       window, now)
             newWindow == \/ wk.windowStart[client] = -1
                          \/ now >= wk.windowStart[client] + window * 1000
             inWindow == IF newWindow THEN 0 ELSE wk.allowedInWindow[client]
             admin == handleAdmin(request.path, request.method, request.auth, wk.env)
             limited == [NoWorkerResponse EXCEPT
                           !.request = request, !.status = 429, !.limited = TRUE,
                           !.error = "Rate limit exceeded",
                           !.raised = rateCheck.raised,
                           !.remaining = rateCheck.remaining,
                           !.reset_in = rateCheck.reset_in]
             passed == [NoWorkerResponse EXCEPT
                           !.request = request, !.status = 200, !.allowed = TRUE,
                           !.raised = rateCheck.raised,
                           !.remaining = rateCheck.remaining,
                           !.reset_in = rateCheck.reset_in]
             routed ==
               IF request.path \in {"/", "/health"}
                 THEN [passed EXCEPT !.success = TRUE]
               ELSE IF isAdminPath(request.path)
                 THEN [passed EXCEPT !.error = admin.error, !.success = admin.success,
                                     !.ops = admin.ops]
               ELSE [passed EXCEPT !.status = 404, !.error = "Not Found"]
         IN wk' = [wk EXCEPT
                     !.requests = @ + 1,
                     !.kv = rateCheck.kv,
                     !.windowStart[client] = IF newWindow THEN now ELSE @,
                     !.allowedInWindow[client] =
                        inWindow + (IF rateCheck.allowed THEN 1 ELSE 0),
                     !.last = IF rateCheck.allowed THEN routed ELSE limited]
  /\ UNCHANGED <<cache, cacheMode, now, crawlVars, cu, rt, fd, cr, rl, qc>>

\* Half a window passes.
WorkerTick ==
  /\ wk.on /\ wk.ticks < MaxWorkerTicks
  /\ now' = now + (window * 1000) \div 2
  /\ wk' = [wk EXCEPT !.ticks = @ + 1]
  /\ UNCHANGED <<cache, cacheMode, crawlVars, cu, rt, fd, cr, rl, qc>>

NextWorker ==
  \/ \E request \in WorkerRequests : Fetch(request)
  \/ WorkerTick

SpecWorker == InitWorker /\ [][NextWorker]_vars


\* ============================== two scrapeSingleUrl calls for one URL at once

\* The two calls: each await of scrapeSingleUrl (checkCache, a strategy,
\* cacheResult) is a point where the other call may run.
Calls == {1, 2}

NoCall == [pc |-> "scrape_cache", stratIdx |-> 0, lastError |-> "undefined",
           ret |-> NoRet, missed |-> FALSE]

\* The entry an earlier run left for the URL, if any: new, one millisecond
\* short of maxAge, or of age maxAge.
RaceCaches(u) ==
  {EmptyCache} \cup { [EmptyCache EXCEPT ![u] = OldEntry(u, age)] : age \in Ages }

InitRace ==
  /\ cacheMode \in {"ok", "none", "readErr", "writeErr"}
  /\ now = Now0
  /\ \E u \in CacheUrls :
       /\ cache \in RaceCaches(u)
       /\ cr = [on |-> TRUE, url |-> u, calls |-> [p \in Calls |-> NoCall],
                writes |-> <<>>]
  /\ CrawlIdle
  /\ cu = NoCacheCall
  /\ rt = NoRetry
  /\ fd = NoFeedCheck
  /\ wk = NoWorker
  /\ rl = NoLimiter
  /\ qc = NoConsumer

\* const cached = await checkCache(url, env.CACHE) of call p: a hit returns
\* {success: true, cached: true, data: cached}; otherwise the loop over the
\* strategies starts.
RaceCheckCache(p) ==
  /\ cr.on /\ cr.calls[p].pc = "scrape_cache"
  /\ \E cached \in {checkCache(cr.url, cacheMode, cache, now)} :
       cr' = [cr EXCEPT
                !.calls[p] =
                   IF cached.present
                     THEN [@ EXCEPT !.pc = "scrape_ret", !.ret = cacheHit(cached)]
                     ELSE [@ EXCEPT !.pc = "scrape_try", !.stratIdx = 1,
                                    !.missed = TRUE]]
  /\ UNCHANGED <<cache, cacheMode, now, crawlVars, cu, rt, fd, wk, rl, qc>>

\* One turn of the strategy loop of call p: a result with content is stamped,
\* written to the cache and returned; otherwise the next strategy is tried.
RaceTryStrategy(p) ==
  /\ cr.on /\ cr.calls[p].pc = "scrape_try"
  /\ cr.calls[p].stratIdx <= Len(strategies)
  /\ \E name \in {strategies[cr.calls[p].stratIdx]} :
     \E r \in {strategyFn(name, cr.url, http[cr.url])} :
     \E t \in {now + r.slept} :
     \E data \in {[present |-> TRUE, url |-> cr.url, links |-> r.value.links,
                   scraped_at |-> toISOString(t), method |-> name,
                   expires_at |-> 0]} :
       /\ now' = t
       /\ IF ~r.threw /\ r.value.content # ""
            THEN /\ cache' = cacheResult(cr.url, data, cacheMode, cache, t)
                 /\ cr' = [cr EXCEPT
                             !.calls[p].pc = "scrape_ret",
                             !.calls[p].ret = [threw |-> FALSE, error |-> NoError,
                                               success |-> TRUE, cached |-> FALSE,
                                               data |-> data],
                             !.writes = Append(@, [by |-> p, data |-> data])]
            ELSE /\ cr' = [cr EXCEPT
                             !.calls[p].stratIdx = @ + 1,
                             !.calls[p].lastError =
                                IF r.threw THEN catchStrategyError(@, r.error)
                                           ELSE @]
                 /\ UNCHANGED cache
  /\ UNCHANGED <<cacheMode, crawlVars, cu, rt, fd, wk, rl, qc>>

\* After the loop of call p: throw new Error(`All scraping strategies failed.
\* Last error: ${lastError?.message}`).
RaceExhausted(p) ==
  /\ cr.on /\ cr.calls[p].pc = "scrape_try"
  /\ cr.calls[p].stratIdx > Len(strategies)
  /\ cr' = [cr EXCEPT
              !.calls[p].pc = "scrape_ret",
              !.calls[p].ret =
                 [NoRet EXCEPT !.threw = TRUE,
                               !.error = [msg |-> "All scraping strategies failed. Last error: ",
                                          last |-> cr.calls[p].lastError]]]
  /\ UNCHANGED <<cache, cacheMode, now, crawlVars, cu, rt, fd, wk, rl, qc>>

NextRace ==
  \/ \E p \in Calls : RaceCheckCache(p)
  \/ \E p \in Calls : RaceTryStrategy(p)
  \/ \E p \in Calls : RaceExhausted(p)

SpecRace == InitRace /\ [][NextRace]_vars

\* ======================================= RateLimiter.checkLimit on its own

\* The checkLimit calls made in all, the calls that may be in progress at once,
\* and the number of times half a window passes between calls.
MaxCalls == 4
MaxLimiterTicks == 3
Callers == {1, 2}

\* The limits tried.
Limits == {0, 1, 2}

NoLimitResult == [kv |-> <<>>, allowed |-> FALSE, remaining |-> 0, reset_in |-> 0]
NoLimiterCall == [pc |-> "idle", r |-> NoLimitResult]

InitLimiter ==
  /\ cacheMode = "ok"
  /\ cache = EmptyCache
  /\ now = Now0
  /\ CrawlIdle
  /\ cu = NoCacheCall
  /\ rt = NoRetry
  /\ fd = NoFeedCheck
  /\ wk = NoWorker
  /\ cr = NoRace
  /\ qc = NoConsumer
  /\ \E limit \in Limits, mode \in KvModes :
       rl = [NoLimiter EXCEPT !.on = TRUE, !.limit = limit, !.mode = mode,
                              !.kv = [c \in Clients |-> NoLimit],
                              !.calls = [p \in Callers |-> NoLimiterCall],
                              !.last = [n |-> 0, by |-> 0, at |-> 0,
                                        threw |-> FALSE, r |-> NoLimitResult]]

\* checkLimit(clientId, {limit, window}) is called: const now = Date.now()
LimiterCall(p) ==
  /\ rl.on /\ rl.calls[p].pc = "idle"
  /\ rl.started < MaxCalls
  /\ rl' = [rl EXCEPT !.calls[p].pc = "get", !.started = @ + 1]
  /\ UNCHANGED <<cache, cacheMode, now, crawlVars, cu, rt, fd, wk, cr, qc>>

\* The same, when no other call is in progress.
LimiterCallAlone(p) ==
  /\ \A q \in Callers : rl.calls[q].pc = "idle"
  /\ LimiterCall(p)

\* What a return of call p with result r leaves: the result, and the count of
\* the calls allowed since the window began (a window begins with the first
\* call, and with the first call `window` seconds or more after the last
\* beginning).
limiterReturn(p, r, threw) ==
  LET newWindow == \/ rl.windowStart = -1
                   \/ now >= rl.windowStart + window * 1000
      inWindow == IF newWindow THEN 0 ELSE rl.allowedInWindow
  IN [rl EXCEPT !.calls[p] = NoLimiterCall,
                !.windowStart = IF newWindow THEN now ELSE @,
                !.allowedInWindow = inWindow + (IF r.allowed THEN 1 ELSE 0),
                !.last = [n |-> @.n + 1, by |-> p, at |-> now, threw |-> threw,
                          r |-> [r EXCEPT !.kv = <<>>]]]

\* const data = await this.kv.get(key, { type: 'json' }) of call p, and the
\* branch taken on it: a throw is caught and the call returns; a client over
\* its limit is refused; otherwise the value to put is ready.
LimiterGet(p) ==
  /\ rl.on /\ rl.calls[p].pc = "get"
  /\ IF rl.mode = "getErr"
       THEN rl' = limiterReturn(p, failOpen(rl.kv, rl.limit, window), TRUE)
       ELSE \E r \in {checkLimit(rl.kv, ClientIp, rl.limit, window, now)} :
              IF r.allowed
                THEN rl' = [rl EXCEPT !.calls[p] = [pc |-> "put", r |-> r]]
                ELSE rl' = limiterReturn(p, r, FALSE)
  /\ UNCHANGED <<cache, cacheMode, now, crawlVars, cu, rt, fd, wk, cr, qc>>

\* await this.kv.put(key, JSON.stringify(...)) of call p and its return; a
\* throw is caught.
LimiterPut(p) ==
  /\ rl.on /\ rl.calls[p].pc = "put"
  /\ IF rl.mode = "putErr"
       THEN rl' = limiterReturn(p, failOpen(rl.kv, rl.limit, window), TRUE)
       ELSE rl' = [limiterReturn(p, rl.calls[p].r, FALSE) EXCEPT
                     !.kv[ClientIp] = rl.calls[p].r.kv[ClientIp]]
  /\ UNCHANGED <<cache, cacheMode, now, crawlVars, cu, rt, fd, wk, cr, qc>>

\* Half a window passes between two calls.
LimiterTick ==
  /\ rl.on /\ rl.ticks < MaxLimiterTicks
  /\ \A q \in Callers : rl.calls[q].pc = "idle"
  /\ now' = now + (window * 1000) \div 2
  /\ rl' = [rl EXCEPT !.ticks = @ + 1]
  /\ UNCHANGED <<cache, cacheMode, crawlVars, cu, rt, fd, wk, cr, qc>>

\* The calls one after the other.
NextLimiterSeq ==
  \/ \E p \in Callers : LimiterCallAlone(p)
  \/ \E p \in Callers : LimiterGet(p)
  \/ \E p \in Callers : LimiterPut(p)
  \/ LimiterTick

SpecLimiterSeq == InitLimiter /\ [][NextLimiterSeq]_vars

\* The calls as the requests of the worker make them: a call may begin while
\* another waits for its kv.get or kv.put.
NextLimiter ==
  \/ \E p \in Callers : LimiterCall(p)
  \/ \E p \in Callers : LimiterGet(p)
  \/ \E p \in Callers : LimiterPut(p)
  \/ LimiterTick

SpecLimiter == InitLimiter /\ [][NextLimiter]_vars

\* ================================================ the queue consumer (index.js)

\* The messages tried: a job as checkRSSFeeds sends it (mode 'manual', no
\* depth), a job without mode and depth, a job for a malformed URL, a job with
\* an unknown mode, and a message without a body.
NoBody == [body |-> FALSE, url |-> "", mode |-> "", depth |-> 0]
Job(u, mode, depth) == [body |-> TRUE, url |-> u, mode |-> mode, depth |-> depth]
Messages ==
  {Job(S, "manual", 0), Job(S, "", 0), Job(BadUrl, "manual", 0), Job(S, "full", 1),
   NoBody}
Batches == { <<m1, m2>> : m1, m2 \in Messages } \cup {<<Job(A1, "manual", 0)>>}

\* The params handleCrawl is called with: mode: job.mode || 'auto',
\* depth: job.depth || 2
jobParams(job) ==
  [url |-> job.url,
   mode |-> IF job.mode # "" THEN job.mode ELSE "auto",
   depth |-> IF job.depth # 0 THEN job.depth ELSE 2]

\* if (result.success) message.ack(); else message.retry();
settleAlwaysAck(success) == "ack"
settle(success) == IF success THEN "ack" ELSE "retry"

InitQueue ==
  /\ cacheMode = "ok"
  /\ cache \in {EmptyCache, [EmptyCache EXCEPT ![S] = OldEntry(S, 0)]}
  /\ now = Now0
  /\ CrawlIdle
  /\ cu = NoCacheCall
  /\ rt = NoRetry
  /\ fd = NoFeedCheck
  /\ wk = NoWorker
  /\ cr = NoRace
  /\ rl = NoLimiter
  /\ \E batch \in Batches :
       qc = [on |-> TRUE, messages |-> batch, idx |-> 1,
             acks |-> [i \in DOMAIN batch |-> 0],
             retries |-> [i \in DOMAIN batch |-> 0],
             outcomes |-> <<>>]

\* The loop takes the next message and calls handleCrawl for its job.
QueueTake ==
  /\ qc.on /\ pc = "idle"
  /\ qc.idx <= Len(qc.messages)
  /\ qc.messages[qc.idx].body
  /\ HandleCrawl(jobParams(qc.messages[qc.idx]))

\* message.ack() or message.retry() of the message `idx`, and the loop moves on.
consumed(how, outcome) ==
  [qc EXCEPT !.idx = @ + 1,
             !.acks[qc.idx] = @ + (IF how = "ack" THEN 1 ELSE 0),
             !.retries[qc.idx] = @ + (IF how = "retry" THEN 1 ELSE 0),
             !.outcomes = Append(@, outcome)]

\* The next message has no body: job.id throws, and the catch of the loop
\* calls message.retry().
QueueRaise ==
  /\ qc.on /\ pc = "idle"
  /\ qc.idx <= Len(qc.messages)
  /\ ~qc.messages[qc.idx].body
  /\ qc' = consumed("retry", "raised")
  /\ UNCHANGED <<cache, cacheMode, now, crawlVars, cu, rt, fd, wk, cr, rl>>

\* handleCrawl has returned: the message is acknowledged or sent back, and the
\* call and its variables are gone.
QueueSettle ==
  /\ qc.on /\ pc = "done" /\ response.returned
  /\ qc' = consumed(settle(response.success),
                    IF response.success THEN "success" ELSE "failure")
  /\ pc' = "idle"
  /\ cache0' = cache
  /\ req' = [url |-> "", mode |-> "", depth |-> 0]
  /\ response' = NoResponse
  /\ visited' = {}
  /\ results' = <<>>
  /\ queue' = <<>>
  /\ cur' = NoCur
  /\ stratIdx' = 0
  /\ lastError' = "undefined"
  /\ ret' = NoRet
  /\ crawlData' = NoCrawlData
  /\ attempts' = <<>>
  /\ scrapeLog' = <<>>
  /\ skipped' = FALSE
  /\ storeCalls' = 0
  /\ pace' = NoPace
  /\ UNCHANGED <<http, maxPages, cache, cacheMode, now, cu, rt, fd, wk, cr, rl>>

NextQueue ==
  \/ QueueTake
  \/ QueueRaise
  \/ QueueSettle
  \/ ScrapeCheckCache
  \/ ScrapeTryStrategy
  \/ ScrapeExhausted
  \/ CrawlDequeue
  \/ CrawlPageDone
  \/ CrawlPageFailed
  \/ CrawlReturn
  \/ HandleCrawlReturn
  \/ HandleCrawlThrown

SpecQueue == InitQueue /\ [][NextQueue]_vars

\* ================================================================== claims

InCrawl == req.mode = "auto" /\ req.url # "" /\ isValidUrl(req.url)
InScrape == pc \in {"scrape_cache", "scrape_try"}
OkCalls == {i \in DOMAIN scrapeLog : scrapeLog[i].ok}

\* C1: within one crawlRecursive call scrapeSingleUrl is invoked at most once
\* per URL: no two completed calls are for the same URL, and a call in progress
\* is for a URL no completed call was for.
C1_ScrapedOncePerUrl ==
  InCrawl =>
    /\ \A i, j \in DOMAIN scrapeLog :
         i # j => scrapeLog[i].url # scrapeLog[j].url
    /\ InScrape => \A i \in DOMAIN scrapeLog : scrapeLog[i].url # cur.url

\* A crawl that met a URL again (a cycle or a repeated link) and dropped it.
C1_Witness ==
  /\ InCrawl /\ pc = "done"
  /\ skipped
  /\ Len(scrapeLog) >= 3

\* C2: the accumulated pages never exceed max_pages_per_domain, and the
\* returned pages_crawled is the length of the returned pages list.
C2_PageCap ==
  /\ Len(results) <= maxPages
  /\ (InCrawl /\ pc \in {"crawl_ret", "done"}) =>
       /\ crawlData.pages_crawled = Len(crawlData.pages)
       /\ crawlData.pages = results
       /\ crawlData.pages_crawled <= maxPages

\* The cap ended a crawl that still had entries in its queue.
C2_Witness ==
  /\ InCrawl /\ pc = "done"
  /\ crawlData.pages_crawled = maxPages
  /\ queue # <<>>

\* C3: a queue entry made from a link found at depth d has depth d + 1 and
\* d < maxDepth, so it is not deeper than maxDepth; every page scraped for the
\* result was scraped at a depth <= maxDepth.
C3_DepthBound ==
  InCrawl =>
    /\ \A i \in DOMAIN queue :
         queue[i].parentDepth # -1 =>
           /\ queue[i].depth = queue[i].parentDepth + 1
           /\ queue[i].parentDepth < req.depth
           /\ queue[i].depth <= req.depth
    /\ \A i \in OkCalls : scrapeLog[i].depth <= req.depth

\* A page at the deepest level allowed was scraped, from a queued link.
C3_Witness ==
  /\ InCrawl /\ req.depth >= 1 /\ pc = "crawl_loop"
  /\ \E i \in OkCalls : scrapeLog[i].depth = req.depth
  /\ \E i \in DOMAIN queue :
       queue[i].depth = req.depth /\ queue[i].parentDepth = req.depth - 1

\* C4: every handleCrawl call returns, and a crawl returns with its queue empty
\* or its results at the page cap.
C4_Terminates ==
  /\ <>(pc = "done")
  /\ [](InCrawl /\ pc \in {"crawl_ret", "done"} =>
          queue = <<>> \/ Len(results) >= maxPages)

\* A crawl over the cyclic part of the web returned.
C4_Witness ==
  /\ InCrawl /\ pc = "done" /\ response.returned
  /\ skipped
  /\ Len(results) >= 2

\* C5: the strategies are tried in the order fetch, puppeteer, api; each is
\* tried only after all before it threw or gave no content, and none after one
\* gave content.
C5_StrategyOrder ==
  /\ Len(attempts) <= 3
  /\ \A i \in DOMAIN attempts :
       /\ attempts[i].name = <<"fetch", "puppeteer", "api">>[i]
       /\ i < Len(attempts) => attempts[i].threw \/ attempts[i].content = ""
  /\ (pc = "scrape_try" /\ attempts # <<>>) =>
       attempts[Len(attempts)].threw \/ attempts[Len(attempts)].content = ""

\* All three strategies were tried in one call.
C5_Witness ==
  /\ pc = "scrape_try"
  /\ Len(attempts) = 3
  /\ \A i \in 1 .. 3 : attempts[i].threw

\* C6: scrapeSingleUrl throws only after all three strategies were tried
\* without a result, and the error carries the message of the last strategy
\* error.
C6_ThrowsOnlyWhenExhausted ==
  (pc = "scrape_ret" /\ ret.threw) =>
    /\ Len(attempts) = 3
    /\ \A i \in 1 .. 3 : attempts[i].threw \/ attempts[i].content = ""
    /\ ret.error.msg = "All scraping strategies failed. Last error: "
    /\ \E i \in 1 .. 3 :
         /\ attempts[i].threw
         /\ \A j \in (i + 1) .. 3 : ~attempts[j].threw
         /\ ret.error.last = attempts[i].error

\* scrapeSingleUrl threw.
C6_Witness ==
  /\ pc = "scrape_ret" /\ ret.threw
  /\ ret.error.last = "API scraping not configured"

\* C7: a manual handleCrawl of an uncached URL whose plain fetch gives HTTP 500
\* returns success = false with the all-strategies-failed error, leaves the
\* cache without an entry for the URL and calls no storage backend.
C7_Scenario ==
  /\ pc = "done"
  /\ req.mode = "manual" /\ req.url # "" /\ isValidUrl(req.url)
  /\ http[req.url] = "500"
  /\ ~cache0[req.url].present

C7_ManualFailure ==
  C7_Scenario =>
    /\ response.returned /\ ~response.success
    /\ response.error.msg = "All scraping strategies failed. Last error: "
    /\ ~cache[req.url].present
    /\ storeCalls = 0

C7_Witness == C7_Scenario /\ cacheMode = "ok" /\ Len(attempts) = 3

\* C8: a page whose scrape failed does not abort the crawl: crawlRecursive
\* returns (it does not throw), with every page scraped before and after the
\* failure in its result, and with the queue processed to the end or the cap.
C8_FailureSkipped ==
  InCrawl =>
    /\ pc \in {"crawl_loop", "crawl_ret", "done"} =>
         Len(results) = Cardinality(OkCalls)
    /\ pc \in {"crawl_ret", "done"} =>
         /\ ~ret.threw
         /\ crawlData.pages = results
         /\ queue = <<>> \/ Len(results) >= maxPages
    /\ pc = "done" => response.returned /\ response.success

\* A crawl returned pages scraped before and after a failed page.
C8_Witness ==
  /\ InCrawl /\ pc = "done" /\ response.success
  /\ \E i, j, k \in DOMAIN scrapeLog :
       /\ i < j /\ j < k
       /\ scrapeLog[i].ok /\ ~scrapeLog[j].ok /\ scrapeLog[k].ok
  /\ crawlData.pages_crawled >= 2

\* C9: a crawl scrapes only URLs of the start URL's domain and, from S (three
\* same-domain and two cross-domain links) with maxDepth = 1, every request
\* answered 200 text/html and a page cap of at least 4, returns
\* pages_crawled = 4.
C9_SameDomainFourPages ==
  /\ InCrawl =>
       \A i \in DOMAIN scrapeLog :
         extractDomain(scrapeLog[i].url) = extractDomain(req.url)
  /\ (/\ pc = "done" /\ req = [url |-> S, mode |-> "auto", depth |-> 1]
      /\ http = AllOk /\ maxPages >= 4)
       => crawlData.pages_crawled = 4

\* C10: a cached entry is served only while its age is below 24 hours; an
\* entry of that age or more is passed over and the strategies are run; a
\* scrape that succeeds through a strategy overwrites the entry.
C10_Age(u) == now - getTime(cache[u].scraped_at)

C10_ServedOnlyFresh ==
  (pc = "scrape_ret" /\ ~ret.threw /\ ret.cached) =>
    /\ ret.data = cache[cur.url]
    /\ now - getTime(ret.data.scraped_at) < 24 * 60 * 60 * 1000

C10_StaleRunsChain ==
  (/\ pc = "scrape_cache" /\ cacheMode = "ok" /\ cache[cur.url].present
   /\ now < cache[cur.url].expires_at)
    => IF C10_Age(cur.url) < 24 * 60 * 60 * 1000
         THEN pc' = "scrape_ret" /\ ret'.cached /\ ret'.data = cache[cur.url]
         ELSE pc' = "scrape_try" /\ stratIdx' = 1 /\ attempts' = <<>>

C10_SuccessOverwrites ==
  (pc = "scrape_try" /\ pc' = "scrape_ret" /\ ~ret'.threw /\ cacheMode = "ok")
    => /\ cache'[cur.url].present
       /\ cache'[cur.url].scraped_at = ret'.data.scraped_at
       /\ cache'[cur.url].links = ret'.data.links

C10_CacheFreshness ==
  /\ []C10_ServedOnlyFresh
  /\ [][C10_StaleRunsChain /\ C10_SuccessOverwrites]_vars

\* An entry exactly 24 hours old, still held by the KV namespace, was passed
\* over and the strategy loop was entered.
C10_Witness ==
  /\ pc = "scrape_try" /\ cacheMode = "ok" /\ stratIdx = 1
  /\ cache[cur.url].present /\ now < cache[cur.url].expires_at
  /\ C10_Age(cur.url) = 24 * 60 * 60 * 1000

\* C11: with a working cache, checkCache(u) after cacheResult(u, d) returns a
\* Document equal to d as long as less than 24 hours (maxAge) have passed since
\* d.scraped_at, and null from then on.
C11_RoundTrip ==
  (cacheMode = "ok" /\ cu.op = "get" /\ cu.last[cu.url].present) =>
    LET d == cu.last[cu.url]
    IN IF cu.at - getTime(d.scraped_at) < maxAge
         THEN cu.got.present /\ Document(cu.got) = Document(d)
         ELSE ~cu.got.present

\* A Document written by cacheResult is read back in the last millisecond of
\* its 24 hours.
C11_Witness ==
  /\ cacheMode = "ok" /\ cu.op = "get"
  /\ cu.got.present /\ cu.got.method = "api" /\ cu.got.links # <<>>
  /\ cu.at - getTime(cu.got.scraped_at) = maxAge - 1

\* C12: a cache fault never surfaces. checkCache and cacheResult never throw;
\* without a binding or on a read error checkCache returns null, and
\* scrapeSingleUrl then runs the whole strategy chain and can only throw the
\* chain's own "All scraping strategies failed" error; without a binding or on
\* a write error cacheResult leaves the cache as it was.
C12_ReadFaultIsMiss ==
  /\ ~cu.threw
  /\ (cu.op = "get" /\ cacheMode \in {"none", "readErr"}) => ~cu.got.present
  /\ (pc = "scrape_try" /\ cacheMode \in {"none", "readErr"}) => stratIdx >= 1
  /\ (pc = "scrape_ret" /\ cacheMode \in {"none", "readErr"}) =>
       /\ ~ret.cached
       /\ [i \in DOMAIN attempts |-> attempts[i].name] = strategies
  /\ (pc = "scrape_ret" /\ ret.threw) =>
       /\ ret.error.msg = "All scraping strategies failed. Last error: "
       /\ ret.error.last = attempts[Len(attempts)].error

C12_WriteFaultKeepsCache ==
  (cacheMode \in {"none", "writeErr"}) => cache' = cache

C12_CacheFaultsContained ==
  []C12_ReadFaultIsMiss /\ [][C12_WriteFaultKeepsCache]_vars

\* A read error hid a fresh entry from scrapeSingleUrl, which ran the three
\* strategies.
C12_Witness ==
  /\ pc = "scrape_ret" /\ Len(attempts) = Len(strategies)
  /\ cacheMode = "readErr" /\ cache[cur.url].present
  /\ now - getTime(cache[cur.url].scraped_at) < maxAge

\* C13: a scrapeSingleUrl call of a crawlRecursive call starts at least
\* delay_between_requests_ms after the previous one of the same call ended,
\* whether the previous one returned or threw.
C13_DelayBetweenFetches ==
  (InCrawl /\ pace.gap # -1) => pace.gap >= delay_between_requests_ms

\* C14: retry invokes the operation at most maxRetries times; it returns the
\* value of the first invocation that succeeded and invokes nothing after it;
\* it throws only after maxRetries invocations that all failed, and then what
\* it throws is the error of the last one.
C14_Failed(k) == \A j \in 1 .. k : rt.outs[j].threw

C14_RetryBounded ==
  rt.op = "retry" =>
    /\ rt.calls <= rt.maxRetries
    /\ C14_Failed(IF rt.state = "returned" THEN rt.calls - 1 ELSE rt.calls)
    /\ rt.state = "returned" =>
         /\ rt.calls >= 1
         /\ ~rt.outs[rt.calls].threw
         /\ rt.value = rt.outs[rt.calls].value
    /\ rt.state = "thrown" =>
         /\ rt.calls = rt.maxRetries
         /\ rt.maxRetries >= 1 => rt.error = rt.outs[rt.maxRetries].error

\* The loop taken turn by turn agrees with retry() applied to an operation that
\* does the same at every invocation.
RECURSIVE SeqSum(_)
SeqSum(s) == IF s = <<>> THEN 0 ELSE Head(s) + SeqSum(Tail(s))

C14_AgreesWithRetry ==
  (/\ rt.op = "retry" /\ rt.state \in {"returned", "thrown"}
   /\ \A j \in DOMAIN rt.outs : rt.outs[j] = rt.outs[1]) =>
    LET r == retry(rt.outs[1], rt.maxRetries)
    IN /\ r.threw = (rt.state = "thrown")
       /\ r.threw => r.error = rt.error
       /\ ~r.threw => r.value = rt.value
       /\ r.calls = rt.calls
       /\ r.slept = SeqSum(rt.sleeps)

C14_NoCallAfterReturn ==
  rt.state \in {"returned", "thrown"} => rt' = rt

C14_Retry ==
  /\ []C14_RetryBounded
  /\ []C14_AgreesWithRetry
  /\ [][C14_NoCallAfterReturn]_vars

\* A call that gave up after the largest number of failures tried, the first
\* with one error and the last with another.
C14_Witness ==
  /\ rt.op = "retry" /\ rt.maxRetries = MaxRetriesTried
  /\ rt.state = "thrown" /\ rt.error = "e2" /\ rt.outs[1].error = "e1"

\* C15: in one scrapeSingleUrl call the browser strategy and the API strategy
\* are each invoked at most once, and exactly once when the call ends with all
\* strategies exhausted; each invocation throws its 'not configured' error at
\* once, without a request, a sleep or a retry, and the loop goes on to the next
\* strategy.
C15_Tries(name) == {i \in DOMAIN attempts : attempts[i].name = name}

C15_NotConfigured(name) ==
  IF name = "puppeteer" THEN "Browser rendering not configured"
                        ELSE "API scraping not configured"

C15_UnconfiguredOnce ==
  \A name \in {"puppeteer", "api"} :
    /\ Cardinality(C15_Tries(name)) <= 1
    /\ (pc = "scrape_ret" /\ ~ret.cached) => Cardinality(C15_Tries(name)) = 1
    /\ \A i \in C15_Tries(name) :
         /\ attempts[i].threw
         /\ attempts[i].error = C15_NotConfigured(name)
         /\ attempts[i].slept = 0 /\ attempts[i].calls = 0
         /\ pc = "scrape_try" => stratIdx > i
         /\ (name = "puppeteer" /\ i < Len(attempts)) => attempts[i + 1].name = "api"

\* A call that tried fetch, then the browser, then the API, and gave up with
\* the API's error as the last one.
C15_Witness ==
  /\ pc = "scrape_ret" /\ ret.threw
  /\ Len(attempts) = 3
  /\ attempts[2].name = "puppeteer" /\ attempts[3].name = "api"
  /\ attempts[1].calls = max_retries
  /\ lastError = "API scraping not configured"

\* The feed checked last by checkSingleFeed: its entries with their scores, and
\* the blocks of its document.
LastScored == fd.scored[Len(fd.scored)]
LastBlocks == fd.web[LastScored.feed.url].blocks
FeedChecked == fd.op = "scheduled" /\ fd.scored # <<>>

NthOf(set, k) == CHOOSE i \in set : Cardinality({j \in set : j < i}) = k - 1

\* C17: high_score_items holds the qualifying entries in the order of the
\* feed, whatever their scores, and total_items is the number of entries the
\* parser kept (the blocks with a title and a link).
C17_FeedOrder ==
  FeedChecked =>
    LET high == fd.feedResult.high_score_items
        idx == {i \in DOMAIN LastScored.items :
                  LastScored.items[i].score >= fd.feedResult.threshold}
    IN /\ Len(high) = Cardinality(idx)
       /\ \A k \in DOMAIN high : high[k] = LastScored.items[NthOf(idx, k)]
       /\ fd.feedResult.total_items = Len(LastScored.items)
       /\ fd.feedResult.total_items =
            Cardinality({b \in DOMAIN LastBlocks :
                           /\ cleanText(LastBlocks[b].title) # <<>>
                           /\ LastBlocks[b].link # ""})

\* Two entries are listed, the one with the higher score first because it is
\* first in the feed, and the parser dropped a block.
C17_Witness ==
  /\ FeedChecked
  /\ Len(fd.feedResult.high_score_items) >= 2
  /\ fd.feedResult.high_score_items[1].score > fd.feedResult.high_score_items[2].score
  /\ fd.feedResult.total_items < Len(LastBlocks)

\* C18: when the send for a qualifying entry fails, the failure is in errors and
\* every other qualifying entry of a checked feed still has its job sent.
C18_RemainingStillSent ==
  (fd.op = "scheduled" /\ fd.pcF = "done") =>
    /\ \A k \in DOMAIN fd.sends :
         ~fd.sends[k].ok =>
           \E e \in DOMAIN fd.results.errors :
             fd.results.errors[e].feed = fd.sends[k].job.feed_name
    /\ \A s \in DOMAIN fd.scored :
         \A i \in DOMAIN fd.scored[s].items :
           fd.scored[s].items[i].score >= fd.threshold =>
             \E k \in DOMAIN fd.sends :
               fd.sends[k].job.url = fd.scored[s].items[i].link

\* C19: when checkRSSFeeds has returned and no send failed, the feeds checked
\* are the enabled feeds whose document could be fetched, and the queue holds
\* exactly one job for every entry of those feeds with score >= threshold, with
\* the entry's link as url, mode 'manual', the feed's name, the score and the
\* title, and no other job.
C19_JobFor(feed, item, job) ==
  /\ job.url = item.link /\ job.mode = "manual"
  /\ job.feed_name = feed.name /\ job.score = item.score /\ job.title = item.title

C19_OneJobPerQualifyingEntry ==
  (/\ fd.op = "scheduled" /\ fd.pcF = "done"
   /\ \A k \in DOMAIN fd.sends : fd.sends[k].ok) =>
    /\ {fd.scored[s].feed : s \in DOMAIN fd.scored} =
         {rss_feeds[f] : f \in {g \in DOMAIN rss_feeds :
                                  /\ rss_feeds[g].enabled
                                  /\ fd.web[rss_feeds[g].url].status = "ok"}}
    /\ \A s \in DOMAIN fd.scored :
         \A i \in DOMAIN fd.scored[s].items :
           LET item == fd.scored[s].items[i]
               jobs == {k \in DOMAIN fd.queue :
                          C19_JobFor(fd.scored[s].feed, item, fd.queue[k])}
           IN Cardinality(jobs) = IF item.score >= fd.threshold THEN 1 ELSE 0
    /\ \A k \in DOMAIN fd.queue :
         \E s \in DOMAIN fd.scored :
           \E i \in DOMAIN fd.scored[s].items :
             /\ C19_JobFor(fd.scored[s].feed, fd.scored[s].items[i], fd.queue[k])
             /\ fd.scored[s].items[i].score >= fd.threshold

\* Both feeds were checked, every send went through, jobs of both feeds are in
\* the queue and an entry below the threshold has none.
C19_Witness ==
  /\ fd.op = "scheduled" /\ fd.pcF = "done"
  /\ \A k \in DOMAIN fd.sends : fd.sends[k].ok
  /\ Len(fd.scored) = 2 /\ Len(fd.queue) >= 3
  /\ \E k \in DOMAIN fd.queue : fd.queue[k].feed_name = "World Watch"
  /\ \E i \in DOMAIN fd.scored[2].items :
       /\ fd.scored[2].items[i].score < fd.threshold
       /\ fd.scored[2].items[i].score > 0

\* The places of text where kw stands as a whole word: the letters are those
\* of kw without regard to case, and neither neighbour is a letter, a digit or
\* an underscore.
C20_Occurrences(kw, text) ==
  { p \in 1 .. Len(text) :
      /\ p + Len(kw) - 1 <= Len(text)
      /\ \A k \in DOMAIN kw : toLowerCase(text)[p + k - 1] = kw[k]
      /\ p > 1 => ~isWordChar(text[p - 1])
      /\ p + Len(kw) <= Len(text) => ~isWordChar(text[p + Len(kw)]) }

\* The score of an entry in thousandths, before rounding.
C20_Expected(cfg, item) ==
  LET kws == cfg.prophecy_keywords
      hps == cfg.high_priority_keywords
      text == item.title \o <<" ">> \o item.description
      weight(k) == IF \E h \in DOMAIN hps : hps[h] = kws[k]
                     THEN cfg.keyword_weights.high ELSE cfg.keyword_weights.medium
      bonus == {h \in DOMAIN hps :
                  \E p \in 1 .. Len(item.title) :
                    /\ p + Len(hps[h]) - 1 <= Len(item.title)
                    /\ \A k \in DOMAIN hps[h] :
                         toLowerCase(item.title)[p + k - 1] = hps[h][k]}
  IN SeqSum([k \in DOMAIN kws |-> Cardinality(C20_Occurrences(kws[k], text)) * weight(k)])
     + 1000 * Cardinality(bonus)

C23_Malformed == {"", BadUrl}
C23_CrawlRejected ==
  (pc = "idle" /\ pc' # "idle" /\ req'.url \in C23_Malformed) =>
     /\ pc' = "done"
     /\ response'.returned /\ ~response'.success
     /\ response'.error = Err("Invalid URL provided")
     /\ UNCHANGED <<cache, now, scrapeLog, attempts, storeCalls, results, ret,
                    crawlData, cu, fd>>
C23_RssRejected ==
  (fd.op = "none" /\ fd'.op = "rss" /\ fd'.params.feed_url \in C23_Malformed) =>
     /\ fd'.pcF = "done"
     /\ fd'.response.returned /\ ~fd'.response.success
     /\ fd'.response.error = "Invalid feed URL provided"
     /\ fd'.fetched = fd.fetched /\ fd'.queue = fd.queue /\ fd'.sends = fd.sends
     /\ fd'.stored = fd.stored
     /\ UNCHANGED <<cache, now, scrapeLog, attempts, storeCalls, cu>>
C23_InvalidRejected == [][C23_CrawlRejected /\ C23_RssRejected]_vars

\* handleRSS has returned for a malformed feed URL and then handleCrawl for a
\* malformed URL.
C23_Witness ==
  /\ pc = "done" /\ req.url = BadUrl /\ response.returned /\ attempts = <<>>
  /\ fd.op = "rss" /\ fd.params.feed_url = BadUrl
  /\ fd.response.returned /\ fd.fetched = <<>>

\* The same calls with a good URL do fetch.
C23_WitnessFetched ==
  /\ pc = "done" /\ req.url = S /\ Len(attempts) = 3
  /\ fd.op = "rss" /\ fd.fetched = <<FeedUrl1>>

\* C24: when scrapeSingleUrl or crawlRecursive has returned a successful
\* result, handleCrawl calls storeResult once and returns success = true with
\* the outcome of storeResult in result.storage, whether storeResult succeeded
\* or failed; the result of the crawl and the cache are as the crawl left them.
C24_AfterCrawl ==
  (pc \in {"scrape_ret", "crawl_ret"} /\ pc' = "done" /\ ~ret.threw /\ ret.success) =>
     /\ response'.returned /\ response'.success
     /\ response'.storage \in {"ok", "failed"}
     /\ storeCalls' = storeCalls + 1
     /\ UNCHANGED <<ret, crawlData, results, cache, scrapeLog>>
C24_StorageFailureKeepsCrawl == [][C24_AfterCrawl]_vars

\* An automatic crawl of at least two pages has returned with success although
\* storeResult failed.
C24_Witness ==
  /\ pc = "done" /\ req.mode = "auto"
  /\ response.success /\ response.storage = "failed"
  /\ storeCalls = 1
  /\ Len(results) >= 2

\* C25: handleAdmin answers a request whose Authorization header is not
\* exactly 'Bearer ' followed by the admin API key of the environment (the key
\* set in env.ADMIN_API_KEY, or 'admin-secret-key' when none is set) with the
\* Unauthorized error, and runs no statement on the database for it.
C25_Key == IF wk.env.ADMIN_API_KEY # "" THEN wk.env.ADMIN_API_KEY ELSE "admin-secret-key"
C25_Authorized(request) ==
  request.auth.set /\ request.auth.value = "Bearer " \o C25_Key
C25_AdminHandled ==
  /\ wk'.requests = wk.requests + 1
  /\ wk'.last.allowed
  /\ wk'.last.request.path \in {r[2] : r \in AdminRoutes}
C25_Step ==
  (C25_AdminHandled /\ ~C25_Authorized(wk'.last.request)) =>
     /\ wk'.last.error = "Unauthorized" /\ ~wk'.last.success
     /\ wk'.last.ops = <<>>
C25_WitnessServed ==
  /\ wk.on /\ wk.last.allowed
  /\ wk.last.request.path = "/api/admin/jobs/7"
  /\ wk.last.request.auth = Header("Bearer " \o AdminKey)
  /\ wk.env.ADMIN_API_KEY = AdminKey
  /\ wk.last.success /\ wk.last.ops = <<"DELETE FROM scrape_metadata">>

\* C26 as claimed: a client is allowed RATE_LIMIT_REQUESTS requests (10 when
\* the variable is not set) per window of 60 seconds, whatever the other
\* settings are: no more than that many of its requests pass the rate limit
\* in one window, and a request is answered with status 429 only when that
\* many have passed in the window.
C26_RateLimitRequests ==
  IF wk.env.RATE_LIMIT_REQUESTS.set THEN wk.env.RATE_LIMIT_REQUESTS.value ELSE 10
C26_LimitIsRateLimitRequests ==
  (wk.on /\ wk.kvMode = "ok") =>
    /\ \A c \in Clients : wk.allowedInWindow[c] <= C26_RateLimitRequests
    /\ wk.last.limited =>
         wk.allowedInWindow[clientIP(wk.last.request)] = C26_RateLimitRequests

\* What the code does instead: the number allowed is the whole part of
\* RSS_SCORE_THRESHOLD (10 when that is not set).
C26_LimitIsThreshold ==
  (wk.on /\ wk.kvMode = "ok") =>
    /\ \A c \in Clients : wk.allowedInWindow[c] <= rateLimit(wk.env)
    /\ wk.last.limited =>
         wk.allowedInWindow[clientIP(wk.last.request)] >= rateLimit(wk.env)
C26_ThirdAllowed ==
  /\ wk.on /\ wk.env.RATE_LIMIT_REQUESTS.set
  /\ wk.allowedInWindow[ClientIp] = 3
C26_SecondRefused ==
  /\ wk.on /\ ~wk.env.RATE_LIMIT_REQUESTS.set /\ wk.last.limited
  /\ wk.allowedInWindow[ClientIp] = 1

\* C27 as claimed: a handleRSS call, a checkRSSFeeds call and a handleCrawl
\* call each return in the end, whatever the remote servers do.
C27_Called == fd.op # "none"
C27_Returned == fd.pcF = "done"
C27_FeedCheckReturns == C27_Called ~> C27_Returned

\* What holds of the code: the handleCrawl call returns, and the feed calls
\* return when no feed server leaves its request unanswered.
C27_NoServerSilent == \A u \in FeedUrls : fd.web[u].status # "hang"
C27_CrawlReturns == (pc # "idle") ~> (pc = "done")
C27_ReturnsWhenAnswered == (C27_Called /\ C27_NoServerSilent) ~> C27_Returned

\* checkRSSFeeds waits for the second feed, whose server never answers.
C27_WaitsForever == fd.pcF = "fetching" /\ fd.op = "scheduled" /\ Len(fd.fetched) = 2

\* C28 as claimed: the links of a Document scrapeSingleUrl returns are valid
\* URLs, no URL is there twice, and there are at most 50 of them.
C28_Returned == pc = "scrape_ret" /\ ~ret.threw /\ ret.success
C28_LinksValidUniqueCapped ==
  C28_Returned =>
    LET links == ret.data.links
    IN /\ \A i \in DOMAIN links : links[i] \in ValidUrls
       /\ \A i, j \in DOMAIN links : i # j => links[i] # links[j]
       /\ Len(links) <= 50

\* What holds of the code: the links are the valid href values of the page in
\* the order of the document, each as often as the page has it, 50 at most.
C28_LinksValidOrderedCapped ==
  C28_Returned =>
    LET links == ret.data.links
        hrefs == Hrefs(cur.url)
        valid == {k \in DOMAIN hrefs : hrefs[k] \in ValidUrls}
    IN /\ Len(links) = Min(Cardinality(valid), 50)
       /\ \A i \in DOMAIN links : links[i] = hrefs[NthOf(valid, i)]
C28_Twice ==
  /\ C28_Returned /\ cur.url = A1
  /\ ret.data.links = <<S, A2, A2>>

\* C30: a manual handleCrawl call and an automatic one with depth 0 make the
\* same page fetches: one scrapeSingleUrl call, for the given URL, which runs
\* the fetch strategies exactly when the cache has no fresh entry for it; no
\* link of the page is scraped.
C30_Degenerate ==
  /\ req.url \in ValidUrls
  /\ req.mode = "manual" \/ (req.mode = "auto" /\ req.depth = 0)
C30_Fresh ==
  /\ cacheMode \in {"ok", "writeErr"}
  /\ cache0[req.url].present
  /\ Now0 - getTime(cache0[req.url].scraped_at) < 24 * 60 * 60 * 1000
C30_ManualIsDepthZero ==
  (pc = "done" /\ C30_Degenerate) =>
     /\ Len(scrapeLog) = 1
     /\ scrapeLog[1].url = req.url
     /\ scrapeLog[1].ok = C30_Fresh
     /\ IF C30_Fresh
          THEN attempts = <<>>
          ELSE /\ Len(attempts) = 3
               /\ <<attempts[1].name, attempts[2].name, attempts[3].name>>
                    = <<"fetch", "puppeteer", "api">>

\* An automatic crawl with depth 0 has returned the start page, which has
\* links of its own domain, and scraped nothing else.
C30_Witness ==
  /\ pc = "done" /\ req = [url |-> S, mode |-> "auto", depth |-> 0]
  /\ Len(results) = 1 /\ Len(results[1].links) >= 3
  /\ Len(scrapeLog) = 1

\* The manual call for the same URL and the same cache.
C30_WitnessManual ==
  /\ pc = "done" /\ req = [url |-> S, mode |-> "manual", depth |-> 1]
  /\ ret.success /\ Len(ret.data.links) >= 3
  /\ Len(scrapeLog) = 1

\* Both calls with no fresh entry: the strategies are run for S only.
C30_WitnessFetched ==
  /\ pc = "done" /\ req = [url |-> S, mode |-> "auto", depth |-> 0]
  /\ Len(attempts) = 3 /\ Len(scrapeLog) = 1


\* Both calls are over, and both had missed the cache of a bound namespace.
C29_BothMissed ==
  /\ cr.on /\ cacheMode = "ok"
  /\ \A p \in Calls : cr.calls[p].pc = "scrape_ret" /\ cr.calls[p].missed

\* C29: when two scrapeSingleUrl calls for one URL both miss the cache, then
\* after both are over each has returned success with its own complete
\* Document, and the cache entry of the URL is the Document of the call that
\* wrote last.
C29_BothReturnLastWriteWins ==
  C29_BothMissed =>
    /\ \A p \in Calls :
         /\ ~cr.calls[p].ret.threw /\ cr.calls[p].ret.success
         /\ cr.calls[p].ret.data.present
         /\ cr.calls[p].ret.data.url = cr.url
         /\ cr.calls[p].ret.data.links = parseHTML(cr.url).links
    /\ Len(cr.writes) = 2
    /\ Document(cache[cr.url]) = Document(cr.writes[2].data)

\* What the code does instead: both calls throw after all three strategies
\* failed, nothing is written, and the cache is as it was found.
C29_BothThrowNothingWritten ==
  C29_BothMissed =>
    /\ \A p \in Calls :
         /\ cr.calls[p].ret.threw
         /\ cr.calls[p].lastError = "API scraping not configured"
    /\ cr.writes = <<>>
    /\ cache \in RaceCaches(cr.url)

\* The entry under the URL is never a mixture: it is the entry found or what
\* one cacheResult call wrote.
C29_NoMixture ==
  cr.on =>
    \/ cache \in RaceCaches(cr.url)
    \/ \E i \in DOMAIN cr.writes :
         Document(cache[cr.url]) = Document(cr.writes[i].data)

\* Both calls missed a stale entry and both are over.
C29_Raced ==
  /\ C29_BothMissed
  /\ cache[cr.url].present


\* A checkLimit call of the calls made one after the other returns in this
\* step, the KV store working.
C31_Returns == rl.on /\ rl.mode = "ok" /\ rl'.last.n = rl.last.n + 1
C31_BeginsWindow ==
  rl.windowStart = -1 \/ now >= rl.windowStart + window * 1000
C31_Body(limit) ==
  /\ rl'.allowedInWindow <= limit
  /\ rl.windowStart # -1 /\ ~C31_BeginsWindow
       => rl.kv[ClientIp].reset_at = rl.windowStart + window * 1000
  /\ (~C31_BeginsWindow /\ rl.allowedInWindow >= limit) =>
       /\ ~rl'.last.r.allowed /\ rl'.last.r.remaining = 0
       /\ rl'.kv = rl.kv
  /\ (C31_BeginsWindow /\ rl.windowStart # -1) =>
       /\ rl'.last.r.allowed
       /\ rl'.kv[ClientIp] = [present |-> TRUE, count |-> 1,
                              reset_at |-> now + window * 1000]

\* C31 as claimed: of the checkLimit calls of one client made one after the
\* other on a working KV store, at most `limit` are allowed in one window; a
\* further call before reset_at is refused with remaining = 0 and leaves the
\* stored value as it is; the first call at or after reset_at is allowed and
\* stores count 1 with a new reset_at.
C31_StepAnyLimit == C31_Returns => C31_Body(rl.limit)
C31_AtMostLimit == [][C31_StepAnyLimit]_vars

\* C31 amended: the same for a limit of 1 or more.
C31_Step == (C31_Returns /\ rl.limit >= 1) => C31_Body(rl.limit)
C31_AtMostLimitFromOne == [][C31_Step]_vars

\* A call refused in the first window, and a call allowed at reset_at after a
\* refused one.
C31_Witness ==
  /\ rl.on /\ rl.mode = "ok" /\ rl.limit = 2
  /\ rl.last.n = 3 /\ ~rl.last.r.allowed /\ rl.allowedInWindow = 2
C31_WitnessRestart ==
  /\ rl.on /\ rl.mode = "ok" /\ rl.limit = 1
  /\ rl.last.n = 3 /\ rl.last.r.allowed /\ rl.last.at = Now0 + window * 1000
  /\ rl.allowedInWindow = 1 /\ rl.kv[ClientIp].count = 1


\* C32 as claimed: when checkLimit calls of one client interleave their
\* kv.get and kv.put, still at most `limit` (1 or more) of them are allowed
\* in one window, and once all have returned the stored count is the number
\* of calls allowed.
C32_OneWindow == rl.on /\ rl.mode = "ok" /\ rl.limit >= 1 /\ rl.ticks = 0
C32_AtMostLimitInterleaved ==
  C32_OneWindow =>
    /\ rl.allowedInWindow <= rl.limit
    /\ (\A p \in Callers : rl.calls[p].pc = "idle")
         => rl.kv[ClientIp].count = rl.allowedInWindow

\* What the code does: two calls that both read before either writes are both
\* allowed on the value read, and the later put overwrites the earlier.
C32_BothAllowedOverLimit ==
  /\ C32_OneWindow /\ rl.limit = 1
  /\ rl.allowedInWindow = 2
  /\ rl.kv[ClientIp].count = 1


\* The worker answers a request in this step and kv.get or kv.put threw in
\* the checkLimit call made for it.
C39_Raised ==
  /\ wk.on /\ wk'.requests = wk.requests + 1
  /\ wk'.last.raised
C39_Routed(resp) ==
  /\ resp.status # 429 /\ ~resp.limited
  /\ resp.error # "Rate limit exceeded"
  /\ resp.request.path \in {"/", "/health"}
       => resp.status = 200 /\ resp.success
  /\ resp.request.path = "/nope"
       => resp.status = 404 /\ resp.error = "Not Found"
  /\ isAdminPath(resp.request.path) =>
       LET admin == handleAdmin(resp.request.path, resp.request.method,
                                resp.request.auth, wk.env)
       IN resp.error = admin.error /\ resp.success = admin.success

\* C39: when kv.get or kv.put throws during checkLimit, the call returns
\* allowed = true with remaining = limit and reset_in = window, and the worker
\* routes the request.
C39_Step ==
  C39_Raised =>
    /\ wk'.last.allowed
    /\ wk'.last.remaining = rateLimit(wk.env)
    /\ wk'.last.reset_in = window
    /\ C39_Routed(wk'.last)
    /\ wk'.kv = wk.kv
C39_FailsOpen == [][C39_Step]_vars

\* With a limit of 1 the third request of a client within the window is
\* routed, kv.put throwing each time; and a request is routed when kv.get
\* throws.
C39_Witness ==
  /\ wk.on /\ wk.kvMode = "putErr" /\ rateLimit(wk.env) = 1
  /\ wk.requests = 3 /\ wk.allowedInWindow[ClientIp] = 3
  /\ wk.last.raised /\ wk.last.request.path = "/health" /\ wk.last.success
C39_WitnessGet ==
  /\ wk.on /\ wk.kvMode = "getErr"
  /\ wk.last.raised /\ wk.last.request.path = "/api/admin/stats"
  /\ wk.last.error = "Unauthorized"


\* C33: for every message of the batch the queue consumer has dealt with,
\* exactly one of ack() and retry() was called, once: ack() exactly when
\* handleCrawl returned success = true, retry() when it returned success =
\* false or something was thrown; no call is made for a message not yet
\* reached, and the messages after a failing one are dealt with in turn.
C33_AckOrRetryOnce ==
  qc.on =>
    /\ Len(qc.outcomes) = qc.idx - 1
    /\ \A i \in DOMAIN qc.messages :
         IF i < qc.idx
           THEN /\ qc.acks[i] + qc.retries[i] = 1
                /\ qc.acks[i] = 1 <=> qc.outcomes[i] = "success"
                /\ qc.retries[i] = 1 <=> qc.outcomes[i] \in {"failure", "raised"}
           ELSE qc.acks[i] = 0 /\ qc.retries[i] = 0

\* A batch is finished whose first message failed and whose second succeeded;
\* and one whose first message had no body.
C33_Witness ==
  /\ qc.on /\ qc.idx = 3
  /\ qc.outcomes = <<"failure", "success">>
  /\ qc.retries = <<1, 0>> /\ qc.acks = <<0, 1>>
C33_WitnessRaised ==
  /\ qc.on /\ qc.idx = 3
  /\ qc.outcomes = <<"raised", "success">>


\* A scrapeSingleUrl call is over that missed the cache, for a URL that
\* answers 200 text/html with a body.
C34_MissedAnswered200 ==
  /\ pc = "scrape_ret" /\ attempts # <<>>
  /\ http[cur.url] = "ok"

\* C34 as claimed: such a call returns success with method 'fetch' after one
\* HTTP request and no retry delay, the browser and API strategies are not
\* tried, and the Document is written to the cache.
C34_FetchSucceedsFirstTry ==
  C34_MissedAnswered200 =>
    /\ ~ret.threw /\ ret.success /\ ~ret.cached
    /\ ret.data.method = "fetch" /\ ret.data.url = cur.url
    /\ Len(attempts) = 1
    /\ attempts[1].name = "fetch" /\ attempts[1].calls = 1 /\ attempts[1].slept = 0
    /\ cacheMode = "ok" => Document(cache[cur.url]) = Document(ret.data)

\* What the code does: the callback of retry throws on each of its
\* max_retries calls, after the request was answered; the other two
\* strategies are tried and throw, and scrapeSingleUrl throws with nothing
\* written.
C34_FetchAlwaysThrows ==
  C34_MissedAnswered200 =>
    /\ ret.threw
    /\ Len(attempts) = 3
    /\ attempts[1].name = "fetch" /\ attempts[1].threw
    /\ attempts[1].calls = max_retries
    /\ attempts[1].error = "Cannot access 'response' before initialization"
    /\ attempts[2].name = "puppeteer" /\ attempts[3].name = "api"
    /\ cache[cur.url] = cache0[cur.url]


\* C35: the strategies of scrapeSingleUrl run only after the cache was read
\* and gave nothing; and the step that finds a valid entry tries no strategy,
\* leaves the cache as it is, and returns that entry marked cached = true.
C35_Hit == pc = "scrape_cache" /\ pc' = "scrape_ret"
C35_Step ==
  /\ (attempts' # attempts /\ attempts' # <<>>) =>
       /\ pc = "scrape_try"
       /\ ~checkCache(cur.url, cacheMode, cache, now).present
  /\ C35_Hit =>
       /\ cache[cur.url].present
       /\ now - getTime(cache[cur.url].scraped_at) < 24 * 60 * 60 * 1000
       /\ attempts' = <<>>
       /\ cache' = cache /\ now' = now
       /\ ~ret'.threw /\ ret'.success /\ ret'.cached
       /\ ret'.data = cache[cur.url]
C35_HitIsFrame == [][C35_Step]_vars

\* A manual scrape served an entry one millisecond short of 24 hours old; and
\* a crawl served a page from the cache after a strategy run for another.
C35_Witness ==
  /\ req.mode = "manual" /\ pc = "scrape_ret" /\ ret.cached
  /\ now - getTime(ret.data.scraped_at) = 24 * 60 * 60 * 1000 - 1
  /\ cache = cache0
C35_WitnessCrawl ==
  /\ req.mode = "auto" /\ pc = "scrape_ret" /\ ret.cached
  /\ \E i \in DOMAIN scrapeLog : ~scrapeLog[i].ok


\* The feeds of the configuration whose `enabled` is true, in order, and the
\* feeds among them whose server answers with an error or not at all.
C36_Enabled ==
  LET RECURSIVE pick(_)
      pick(k) == IF k > Len(rss_feeds) THEN <<>>
                 ELSE IF rss_feeds[k].enabled THEN <<rss_feeds[k]>> \o pick(k + 1)
                 ELSE pick(k + 1)
  IN pick(1)
C36_Fails(feed) == fd.web[feed.url].status \in {"500", "neterr"}
C36_TurnsOver ==
  IF fd.pcF = "done" THEN Len(C36_Enabled) ELSE fd.feedIdx - 1

\* C36: in checkRSSFeeds a feed whose fetch fails is recorded in errors with
\* its name and the next enabled feed is fetched all the same: the feeds
\* fetched are the enabled feeds in order, a feed that is not enabled is never
\* fetched, every feed whose turn is over was counted as checked or has its
\* error recorded, and when the call returns every enabled feed was fetched.
C36_FailedFeedSkipped ==
  fd.op = "scheduled" =>
    /\ Len(fd.fetched) <= Len(C36_Enabled)
    /\ \A k \in DOMAIN fd.fetched : fd.fetched[k] = C36_Enabled[k].url
    /\ \A k \in DOMAIN fd.fetched : fd.fetched[k] # FeedUrlOff
    /\ \A k \in 1 .. C36_TurnsOver :
         /\ k \in DOMAIN fd.fetched
         /\ C36_Fails(C36_Enabled[k]) <=>
              \E e \in DOMAIN fd.results.errors :
                /\ fd.results.errors[e].feed = C36_Enabled[k].name
                /\ fd.results.errors[e].error # "Queue send failed"
         /\ ~C36_Fails(C36_Enabled[k]) =>
              \E s \in DOMAIN fd.scored : fd.scored[s].feed = C36_Enabled[k]
    /\ fd.results.feeds_checked = Len(fd.scored)
    /\ fd.pcF = "done" => Len(fd.fetched) = Len(C36_Enabled)

\* The call has returned; the first feed failed and the second was checked.
C36_Witness ==
  /\ fd.op = "scheduled" /\ fd.pcF = "done"
  /\ fd.web[FeedUrl1].status = "neterr"
  /\ fd.results.errors = <<[feed |-> "Prophecy News", error |-> "fetch failed"]>>
  /\ fd.results.feeds_checked = 1
  /\ fd.fetched = <<FeedUrl1, FeedUrl2>>


\* C37: at every await of checkRSSFeeds and on its return, scrapes_triggered
\* is the length of high_score_items and the number of sends to the queue that
\* resolved, and feeds_checked is at most the number of enabled feeds.
C37_SendsResolved == {k \in DOMAIN fd.sends : fd.sends[k].ok}
C37_CountsAgree ==
  fd.op = "scheduled" =>
    /\ fd.results.scrapes_triggered = Len(fd.results.high_score_items)
    /\ fd.results.scrapes_triggered = Cardinality(C37_SendsResolved)
    /\ fd.results.scrapes_triggered = Len(fd.queue)
    /\ fd.results.feeds_checked
         <= Cardinality({k \in DOMAIN rss_feeds : rss_feeds[k].enabled})

\* The call has returned with both feeds checked, three jobs sent and one send
\* failed.
C37_Witness ==
  /\ fd.op = "scheduled" /\ fd.pcF = "done"
  /\ fd.results.feeds_checked = 2
  /\ fd.results.scrapes_triggered = 3
  /\ \E k \in DOMAIN fd.sends : ~fd.sends[k].ok


\* C38: the k-th sleep of a retry call lasts
\* min(initialDelay * backoffFactor^(k-1), maxDelay); a sleep follows every
\* failed invocation but the last one allowed, and none follows an invocation
\* that succeeded: a call that gave up after maxRetries (1 or more) failures
\* slept maxRetries - 1 times.
RECURSIVE C38_Power(_, _)
C38_Power(b, n) == IF n = 0 THEN 1 ELSE b * C38_Power(b, n - 1)
C38_Sleep(k) ==
  LET d == initialDelay * C38_Power(backoffFactor, k - 1)
  IN IF d < maxDelay THEN d ELSE maxDelay
C38_BackoffCapped ==
  (rt.op = "retry" /\ rt.maxRetries >= 1) =>
    /\ \A k \in DOMAIN rt.sleeps : rt.sleeps[k] = C38_Sleep(k)
    /\ rt.state = "thrown" =>
         Len(rt.sleeps) = rt.maxRetries - 1 /\ rt.calls = rt.maxRetries
    /\ rt.state = "returned" => Len(rt.sleeps) = rt.calls - 1
    /\ rt.state = "loop" =>
         Len(rt.sleeps) = (IF rt.calls = rt.maxRetries THEN rt.calls - 1 ELSE rt.calls)

\* A call that gave up after six failures: its fifth sleep was cut to
\* maxDelay; and a call that succeeded at the third invocation.
C38_Witness ==
  /\ rt.op = "retry" /\ rt.maxRetries = 6 /\ rt.state = "thrown"
  /\ rt.sleeps = <<1000, 2000, 4000, 8000, 10000>>
C38_WitnessReturned ==
  /\ rt.op = "retry" /\ rt.maxRetries = 3 /\ rt.state = "returned"
  /\ rt.calls = 3 /\ rt.sleeps = <<1000, 2000>>


\* A handleRSS call has returned the result of checkSingleFeed.
C40_Returned ==
  /\ fd.op = "rss" /\ fd.response.returned /\ fd.response.success
C40_EnvThreshold == IF fd.env.set THEN fd.env.value ELSE 500
C40_Scored ==
  scoreItems(fd.cfg, parseRSSFeed(fd.web[fd.params.feed_url]).items)
C40_Exactly(th) ==
  /\ fd.response.result.threshold = th
  /\ fd.response.result.high_score_items
       = SelectSeq(C40_Scored, LAMBDA item : item.score >= th)

\* C40 as claimed: handleRSS uses the threshold of the request whenever the
\* request gives a number, 0 included, and that of env.RSS_SCORE_THRESHOLD
\* (5.0 when not set) only when the request gives none; high_score_items are
\* exactly the entries whose score is at least the threshold so chosen.
C40_RequestThresholdApplied ==
  C40_Returned =>
    C40_Exactly(IF fd.params.threshold.set THEN fd.params.threshold.value
                                           ELSE C40_EnvThreshold)

\* What the code does: a threshold of 0 in the request counts as none.
C40_ZeroCountsAsNone ==
  C40_Returned =>
    C40_Exactly(IF fd.params.threshold.set /\ fd.params.threshold.value # 0
                  THEN fd.params.threshold.value
                  ELSE C40_EnvThreshold)
C40_ZeroIgnored ==
  /\ C40_Returned
  /\ fd.params.threshold = [set |-> TRUE, value |-> 0]
  /\ fd.response.result.threshold = 500
  /\ Len(fd.response.result.high_score_items) < Len(C40_Scored)

====
